---- MODULE Spec2Model ----
(***************************************************************************)
(* A state-machine model of the georisk core: context, gridded state       *)
(* space, Jacobian, Hessian, fragility map, transport metric and           *)
(* constraint surface.                                                     *)
(*                                                                         *)
(* Conventions.                                                            *)
(*  - A C double is modelled by an exact rational <<num, den>> in lowest   *)
(*    terms with den > 0.  The operations the code performs with + - * /   *)
(*    are exact; sqrt, exp and log10 are rounded (see Sqrt, Sigmoid,       *)
(*    Log10).                                                              *)
(*  - A C array is a function on 0 .. n-1, so that indices read as in the  *)
(*    source.  A heap buffer keeps the length it was allocated with.       *)
(*  - A data pointer is NULL or, for an array, Arr(f) with f the array; a  *)
(*    string or a function pointer is NULLS or its name.                   *)
(*  - An allocation may fail at any time: its outcome is an input of the   *)
(*    action that performs it.                                             *)
(*  - ub records that the run has performed an out-of-bounds access; the   *)
(*    behaviour of the program is undefined from there on and the model    *)
(*    takes no further step.                                               *)
(***************************************************************************)
EXTENDS Integers, Sequences, FiniteSets, TLC

VARIABLES ctx, space, jac, hess, map, metric, surface, dl, op, ret, ub, obs

vars == <<ctx, space, jac, hess, map, metric, surface, dl, op, ret, ub, obs>>

NULL == [null |-> TRUE]
NULLS == "NULL"

Arr(f) == [null |-> FALSE, at |-> f]

(***************************************************************************)
(* Bounds of the model.                                                    *)
(***************************************************************************)
\* dimensions a state space is given in the main specifications
MaxDims == 2
\* libraries the dynamic loader opens in one run
MaxLoads == 3
\* width of size_t in bits (the narrowest ISO C allows)
SizeBits == 16

(***************************************************************************)
(* Program constants.                                                      *)
(***************************************************************************)
GR_MAX_DIMENSIONS == 16

GR_SUCCESS == "GR_SUCCESS"
GR_ERROR_NULL_POINTER == "GR_ERROR_NULL_POINTER"
GR_ERROR_INVALID_ARGUMENT == "GR_ERROR_INVALID_ARGUMENT"
GR_ERROR_OUT_OF_MEMORY == "GR_ERROR_OUT_OF_MEMORY"
GR_ERROR_DIMENSION_MISMATCH == "GR_ERROR_DIMENSION_MISMATCH"
GR_ERROR_NUMERICAL_INSTABILITY == "GR_ERROR_NUMERICAL_INSTABILITY"
GR_ERROR_NOT_INITIALIZED == "GR_ERROR_NOT_INITIALIZED"
GR_ERROR_PRICING_ENGINE_FAILED == "GR_ERROR_PRICING_ENGINE_FAILED"

(***************************************************************************)
(* Rational arithmetic (the model of double).                              *)
(***************************************************************************)
Abs(a) == IF a < 0 THEN -a ELSE a

RECURSIVE Gcd(_, _)
Gcd(a, b) == IF b = 0 THEN a ELSE Gcd(b, a % b)

\* the rational n/d (d # 0) in lowest terms with a positive denominator
Rat(n, d) ==
    LET g == Gcd(Abs(n), Abs(d))
        s == IF d < 0 THEN -1 ELSE 1
    IN  <<s * (n \div g), s * (d \div g)>>

R(n) == <<n, 1>>
Zero == <<0, 1>>
One == <<1, 1>>
Two == <<2, 1>>

RNeg(x) == <<-x[1], x[2]>>

RAdd(x, y) ==
    IF x[1] = 0 THEN y
    ELSE IF y[1] = 0 THEN x
    ELSE LET g == Gcd(x[2], y[2])
         IN  Rat(x[1] * (y[2] \div g) + y[1] * (x[2] \div g), (x[2] \div g) * y[2])

RSub(x, y) == RAdd(x, RNeg(y))

RMul(x, y) ==
    LET g1 == Gcd(Abs(x[1]), y[2])
        g2 == Gcd(Abs(y[1]), x[2])
    IN  IF x[1] = 0 \/ y[1] = 0 THEN Zero
        ELSE <<(x[1] \div g1) * (y[1] \div g2), (x[2] \div g2) * (y[2] \div g1)>>

RInv(x) == IF x[1] < 0 THEN <<-x[2], -x[1]>> ELSE <<x[2], x[1]>>

RDiv(x, y) == RMul(x, RInv(y))

RLt(x, y) == RSub(x, y)[1] < 0
RLe(x, y) == RSub(x, y)[1] <= 0
RGt(x, y) == RLt(y, x)
RGe(x, y) == RLe(y, x)

RAbs(x) == <<Abs(x[1]), x[2]>>

\* fabs(x) < 1e-15 and x > 1e-15: no non-zero value of the model is that small
RTiny(x) == x[1] = 0

RECURSIVE ISqrtBetween(_, _, _)
\* the largest k in lo .. hi with k * k <= n (lo * lo <= n)
ISqrtBetween(n, lo, hi) ==
    IF lo = hi THEN lo
    ELSE LET mid == (lo + hi + 1) \div 2
         IN  IF mid <= n \div mid THEN ISqrtBetween(n, mid, hi)
             ELSE ISqrtBetween(n, lo, mid - 1)

ISqrt(n) == ISqrtBetween(n, 0, 46340)

RECURSIVE SqrtShift(_, _)
\* the largest j <= 10 (from j on) for which n * 4^j stays below 2^30
SqrtShift(n, j) ==
    IF j < 10 /\ n < (2 ^ 28) \div (4 ^ j) THEN SqrtShift(n, j + 1) ELSE j

\* sqrt: exact on a ratio of perfect squares, otherwise rounded down to a
\* multiple of 2^-j, with j the most the 32-bit integers of the checker allow
Sqrt(x) ==
    IF x[1] <= 0 THEN Zero
    ELSE LET a == ISqrt(x[1])
             b == ISqrt(x[2])
         IN  IF a * a = x[1] /\ b * b = x[2] THEN <<a, b>>
             ELSE LET j == SqrtShift(x[1], 0)
                  IN  Rat(ISqrt((x[1] * (4 ^ j)) \div x[2]), 2 ^ j)

(***************************************************************************)
(* size_t arithmetic.                                                      *)
(***************************************************************************)
SizeMod == 2 ^ SizeBits

SzMul(a, b) == (a * b) % SizeMod
SzAdd(a, b) == (a + b) % SizeMod

\* f with index i set to v, the domain growing to hold i
Put(f, i, v) == [j \in (DOMAIN f) \cup {i} |-> IF j = i THEN v ELSE f[j]]

(***************************************************************************)
(* Context (core.h, context.c).                                            *)
(***************************************************************************)
GR_DEFAULT_BUMP == Rat(1, 10000)

\* the vtables after calloc: no handle, no function
NoMco ==
    [handle |-> 0, context_new |-> 0, context_free |-> 0,
     context_set_num_threads |-> 0,
     european_call |-> 0, european_put |-> 0,
     asian_call |-> 0, asian_put |-> 0]

NoFdp ==
    [handle |-> 0, context_new |-> 0, context_free |-> 0,
     price_european_call |-> 0, price_european_put |-> 0,
     price_american_call |-> 0, price_american_put |-> 0]

gr_context_new ==
    [bump_size |-> GR_DEFAULT_BUMP,
     num_threads |-> 1,
     last_error |-> GR_SUCCESS,
     error_msg |-> "",
     mco |-> NoMco,
     fdp |-> NoFdp,
     mco_loaded |-> 0,
     fdp_loaded |-> 0,
     mco_ctx |-> 0,
     fdp_ctx |-> 0]

gr_set_error(c, code, msg) ==
    [c EXCEPT !.last_error = code, !.error_msg = msg]

gr_clear_error(c) ==
    [c EXCEPT !.last_error = GR_SUCCESS, !.error_msg = ""]

(***************************************************************************)
(* The dynamic loader (dlopen, dlsym, dlclose) and the engine libraries.   *)
(* A handle is the number of the dlopen that returned it, 0 is the null    *)
(* handle.  A function pointer is the handle of the library that holds     *)
(* the function, 0 the null pointer.  A pricing context is the handle of   *)
(* the library whose context_new returned it, 0 the null pointer.          *)
(* dl.open holds the handles not yet closed, dl.created the pricing        *)
(* contexts the libraries have returned, dl.freed one record per call of   *)
(* a context_free: the context released and the library called.            *)
(***************************************************************************)
DlInit == [loads |-> 0, open |-> {}, created |-> {}, freed |-> {}]

\* the symbols of the library at a path; no library is at "absent"
Exports(path) ==
    CASE path = "mco_full" ->
           {"mco_context_new", "mco_context_free",
            "mco_context_set_num_threads",
            "mco_european_call", "mco_european_put",
            "mco_asian_call", "mco_asian_put"}
      [] path = "mco_calls" ->
           {"mco_context_new", "mco_context_free",
            "mco_european_call", "mco_asian_call"}
      [] path = "mco_bare" -> {"mco_context_new"}
      [] path = "fdp_full" ->
           {"fdp_context_new", "fdp_context_free",
            "fdp_price_european_call", "fdp_price_european_put",
            "fdp_price_american_call", "fdp_price_american_put"}
      [] path = "fdp_calls" ->
           {"fdp_context_new", "fdp_context_free",
            "fdp_price_european_call", "fdp_price_american_call"}
      [] path = "fdp_bare" -> {"fdp_context_free"}
      [] OTHER -> {}

dlsym(path, handle, name) == IF name \in Exports(path) THEN handle ELSE 0

dlclose(d, handle) == [d EXCEPT !.open = @ \ {handle}]

\* a call through function pointer fp is defined while its library is open
Callable(d, fp) == fp \in d.open

\* gr_bridge_load_mco; ctxOk is whether mco_context_new returns a context
gr_bridge_load_mco(c, d, path, ctxOk) ==
    IF path = NULLS
    THEN [ctx |-> c, dl |-> d, ret |-> GR_ERROR_NULL_POINTER, ub |-> FALSE]
    ELSE
    LET c1 == IF c.mco.handle # 0
              THEN [c EXCEPT !.mco.handle = 0, !.mco_loaded = 0]
              ELSE c
        d1 == IF c.mco.handle # 0 THEN dlclose(d, c.mco.handle) ELSE d
        h == d1.loads + 1
        d2 == [d1 EXCEPT !.loads = h, !.open = @ \cup {h}]
        c2 == [c1 EXCEPT
                 !.mco.handle = h,
                 !.mco.context_new = dlsym(path, h, "mco_context_new"),
                 !.mco.context_free = dlsym(path, h, "mco_context_free")]
        c3 == [c2 EXCEPT
                 !.mco.context_set_num_threads =
                     dlsym(path, h, "mco_context_set_num_threads"),
                 !.mco.european_call = dlsym(path, h, "mco_european_call"),
                 !.mco.european_put = dlsym(path, h, "mco_european_put"),
                 !.mco.asian_call = dlsym(path, h, "mco_asian_call"),
                 !.mco.asian_put = dlsym(path, h, "mco_asian_put")]
    IN  IF Exports(path) = {}
        THEN [ctx |-> gr_set_error(c1, GR_ERROR_INVALID_ARGUMENT, "dlerror"),
              dl |-> d1, ret |-> GR_ERROR_INVALID_ARGUMENT, ub |-> FALSE]
        ELSE IF c2.mco.context_new = 0 \/ c2.mco.context_free = 0
        THEN [ctx |-> gr_set_error([c2 EXCEPT !.mco.handle = 0],
                          GR_ERROR_INVALID_ARGUMENT,
                          "mcoptions: missing required context functions"),
              dl |-> dlclose(d2, h),
              ret |-> GR_ERROR_INVALID_ARGUMENT, ub |-> FALSE]
        ELSE IF ~ctxOk
        THEN [ctx |-> gr_set_error(
                          [c3 EXCEPT !.mco_ctx = 0, !.mco.handle = 0],
                          GR_ERROR_OUT_OF_MEMORY,
                          "mcoptions: failed to create context"),
              dl |-> dlclose(d2, h),
              ret |-> GR_ERROR_OUT_OF_MEMORY, ub |-> FALSE]
        ELSE [ctx |-> [c3 EXCEPT !.mco_ctx = h, !.mco_loaded = 1],
              dl |-> [d2 EXCEPT !.created = @ \cup {h}],
              ret |-> GR_SUCCESS, ub |-> FALSE]

\* gr_bridge_unload_mco
gr_bridge_unload_mco(c, d) ==
    LET frees == c.mco_ctx # 0 /\ c.mco.context_free # 0
        d1 == IF frees
              THEN [d EXCEPT !.freed = @ \cup
                       {[ctx |-> c.mco_ctx, via |-> c.mco.context_free]}]
              ELSE d
        d2 == IF c.mco.handle # 0 THEN dlclose(d1, c.mco.handle) ELSE d1
    IN  [ctx |-> [c EXCEPT !.mco_ctx = IF frees THEN 0 ELSE @,
                           !.mco.handle = 0,
                           !.mco_loaded = 0],
         dl |-> d2,
         \* a call into a library that is closed, or a second release
         ub |-> frees /\ (~Callable(d, c.mco.context_free)
                          \/ \E f \in d.freed : f.ctx = c.mco_ctx)]

\* gr_bridge_load_fdp; ctxOk is whether fdp_context_new returns a context
gr_bridge_load_fdp(c, d, path, ctxOk) ==
    IF path = NULLS
    THEN [ctx |-> c, dl |-> d, ret |-> GR_ERROR_NULL_POINTER, ub |-> FALSE]
    ELSE
    LET c1 == IF c.fdp.handle # 0
              THEN [c EXCEPT !.fdp.handle = 0, !.fdp_loaded = 0]
              ELSE c
        d1 == IF c.fdp.handle # 0 THEN dlclose(d, c.fdp.handle) ELSE d
        h == d1.loads + 1
        d2 == [d1 EXCEPT !.loads = h, !.open = @ \cup {h}]
        c2 == [c1 EXCEPT
                 !.fdp.handle = h,
                 !.fdp.context_new = dlsym(path, h, "fdp_context_new"),
                 !.fdp.context_free = dlsym(path, h, "fdp_context_free")]
        c3 == [c2 EXCEPT
                 !.fdp.price_european_call =
                     dlsym(path, h, "fdp_price_european_call"),
                 !.fdp.price_european_put =
                     dlsym(path, h, "fdp_price_european_put"),
                 !.fdp.price_american_call =
                     dlsym(path, h, "fdp_price_american_call"),
                 !.fdp.price_american_put =
                     dlsym(path, h, "fdp_price_american_put")]
    IN  IF Exports(path) = {}
        THEN [ctx |-> gr_set_error(c1, GR_ERROR_INVALID_ARGUMENT, "dlerror"),
              dl |-> d1, ret |-> GR_ERROR_INVALID_ARGUMENT, ub |-> FALSE]
        ELSE IF c2.fdp.context_new = 0 \/ c2.fdp.context_free = 0
        THEN [ctx |-> gr_set_error([c2 EXCEPT !.fdp.handle = 0],
                          GR_ERROR_INVALID_ARGUMENT,
                          "fdpricing: missing required context functions"),
              dl |-> dlclose(d2, h),
              ret |-> GR_ERROR_INVALID_ARGUMENT, ub |-> FALSE]
        ELSE IF ~ctxOk
        THEN [ctx |-> gr_set_error(
                          [c3 EXCEPT !.fdp_ctx = 0, !.fdp.handle = 0],
                          GR_ERROR_OUT_OF_MEMORY,
                          "fdpricing: failed to create context"),
              dl |-> dlclose(d2, h),
              ret |-> GR_ERROR_OUT_OF_MEMORY, ub |-> FALSE]
        ELSE [ctx |-> [c3 EXCEPT !.fdp_ctx = h, !.fdp_loaded = 1],
              dl |-> [d2 EXCEPT !.created = @ \cup {h}],
              ret |-> GR_SUCCESS, ub |-> FALSE]

\* gr_bridge_unload_fdp
gr_bridge_unload_fdp(c, d) ==
    LET frees == c.fdp_ctx # 0 /\ c.fdp.context_free # 0
        d1 == IF frees
              THEN [d EXCEPT !.freed = @ \cup
                       {[ctx |-> c.fdp_ctx, via |-> c.fdp.context_free]}]
              ELSE d
        d2 == IF c.fdp.handle # 0 THEN dlclose(d1, c.fdp.handle) ELSE d1
    IN  [ctx |-> [c EXCEPT !.fdp_ctx = IF frees THEN 0 ELSE @,
                           !.fdp.handle = 0,
                           !.fdp_loaded = 0],
         dl |-> d2,
         ub |-> frees /\ (~Callable(d, c.fdp.context_free)
                          \/ \E f \in d.freed : f.ctx = c.fdp_ctx)]

(***************************************************************************)
(* State space (state_space.h, state_space.c).                             *)
(***************************************************************************)
gr_state_space_new ==
    [num_dims |-> 0,
     dims |-> [j \in {} |-> NULL],
     strides |-> [j \in 0 .. GR_MAX_DIMENSIONS - 1 |-> 0],
     total_points |-> 0,
     prices |-> NULL,
     prices_valid |-> 0]

\* the grid of a dimension: node i is min + i * step, the last node is max
gr_dimension_build_grid(dim) ==
    LET range == RSub(dim.max_value, dim.min_value)
        step == RDiv(range, R(dim.num_points - 1))
    IN  [dim EXCEPT
            !.step_size = step,
            !.grid = Arr([i \in 0 .. dim.num_points - 1 |->
                        IF i = dim.num_points - 1 THEN dim.max_value
                        ELSE RAdd(dim.min_value, RMul(R(i), step))])]

RECURSIVE StrideLoop(_, _, _)
\* the strides array after the backward loop has run from index d down to 0
StrideLoop(dims, strides, d) ==
    IF d < 0 THEN strides
    ELSE StrideLoop(dims,
                    [strides EXCEPT ![d] = SzMul(strides[d + 1], dims[d + 1].num_points)],
                    d - 1)

gr_state_space_compute_strides(s) ==
    IF s.num_dims = 0 THEN [s EXCEPT !.total_points = 0]
    ELSE LET last == [s.strides EXCEPT ![s.num_dims - 1] = 1]
             st == StrideLoop(s.dims, last, s.num_dims - 2)
         IN  [s EXCEPT !.strides = st,
                       !.total_points = SzMul(st[0], s.dims[0].num_points)]

RECURSIVE FlatLoop(_, _, _)
FlatLoop(s, indices, d) ==
    IF d < 0 THEN 0
    ELSE SzAdd(FlatLoop(s, indices, d - 1), SzMul(indices[d], s.strides[d]))

gr_state_space_flat_index(s, indices) == FlatLoop(s, indices, s.num_dims - 1)

RECURSIVE FlatRemainder(_, _, _)
\* the value of the local flat when the loop of multi_index reaches index d
FlatRemainder(s, flat, d) ==
    IF d = 0 THEN flat ELSE FlatRemainder(s, flat, d - 1) % s.strides[d - 1]

\* defined when no stride in use is zero (the division is undefined otherwise)
gr_state_space_multi_index(s, flat) ==
    [d \in 0 .. s.num_dims - 1 |-> FlatRemainder(s, flat, d) \div s.strides[d]]

DividesByZero(s) == \E d \in 0 .. s.num_dims - 1 : s.strides[d] = 0

gr_state_space_get_coordinates(s, flat) ==
    LET indices == gr_state_space_multi_index(s, flat)
    IN  [d \in 0 .. s.num_dims - 1 |-> s.dims[d].grid.at[indices[d]]]

(***************************************************************************)
(* Pricing callbacks handed to map_prices.                                 *)
(***************************************************************************)
RECURSIVE SumSquares(_, _)
SumSquares(coords, n) ==
    IF n = 0 THEN Zero
    ELSE RAdd(SumSquares(coords, n - 1), RMul(coords[n - 1], coords[n - 1]))

\* a callback with a mixed second derivative: the product of the first two
\* coordinates
cross_term(coords, n) ==
    IF n >= 2 THEN RMul(coords[0], coords[1]) ELSE coords[0]

simple_quadratic(coords, n) == SumSquares(coords, n)

gr_pricing_fn(fn, coords, n) ==
    IF fn = "simple_quadratic" THEN simple_quadratic(coords, n)
    ELSE cross_term(coords, n)

(***************************************************************************)
(* gr_state_space_add_dimension.  nameOk and gridOk are the outcomes of    *)
(* the two allocations.                                                    *)
(***************************************************************************)
Slot(s) ==
    IF s.num_dims \in DOMAIN s.dims THEN s.dims[s.num_dims]
    ELSE [type |-> "GR_DIM_SPOT", name |-> NULLS, min_value |-> Zero,
          max_value |-> Zero, current |-> Zero, num_points |-> 0,
          grid |-> NULL, step_size |-> Zero]

\* the next slot with the scalar fields of dim copied into it
CopyDimension(s, dim) ==
    [Slot(s) EXCEPT !.type = dim.type,
                    !.min_value = dim.min_value,
                    !.max_value = dim.max_value,
                    !.current = dim.current,
                    !.num_points = dim.num_points]

\* AddDimensionCommit without the invalidation of the cached prices
AddDimensionCommitKeepsPrices(s, built) ==
    gr_state_space_compute_strides(
        [s EXCEPT !.dims = Put(@, s.num_dims, built), !.num_dims = @ + 1])

\* the success path once the slot is filled: count it, recompute the strides,
\* invalidate the cached prices
AddDimensionCommit(s, built) ==
    [gr_state_space_compute_strides(
        [s EXCEPT !.dims = Put(@, s.num_dims, built), !.num_dims = @ + 1])
     EXCEPT !.prices_valid = 0]

AddDimension(dim, nameOk, gridOk) ==
    /\ ~ub
    /\ UNCHANGED dl
    /\ UNCHANGED surface
    /\ op' = "add_dimension"
    /\ UNCHANGED <<jac, hess, map, metric, ub, obs>>
    /\ IF dim = NULL
       THEN /\ ret' = GR_ERROR_NULL_POINTER
            /\ UNCHANGED <<ctx, space>>
       ELSE IF space.num_dims >= GR_MAX_DIMENSIONS
       THEN /\ ctx' = gr_set_error(ctx, GR_ERROR_INVALID_ARGUMENT,
                                   "Maximum dimensions exceeded")
            /\ ret' = GR_ERROR_INVALID_ARGUMENT
            /\ UNCHANGED space
       ELSE IF dim.num_points < 2
       THEN /\ ctx' = gr_set_error(ctx, GR_ERROR_INVALID_ARGUMENT,
                                   "Dimension must have at least 2 points")
            /\ ret' = GR_ERROR_INVALID_ARGUMENT
            /\ UNCHANGED space
       ELSE IF RGe(dim.min_value, dim.max_value)
       THEN /\ ctx' = gr_set_error(ctx, GR_ERROR_INVALID_ARGUMENT,
                                   "Dimension min must be less than max")
            /\ ret' = GR_ERROR_INVALID_ARGUMENT
            /\ UNCHANGED space
       ELSE LET copied == CopyDimension(space, dim)
                named == [copied EXCEPT !.name = dim.name]
                built == gr_dimension_build_grid(named)
            IN  IF dim.name # NULLS /\ ~nameOk
                THEN /\ space' = [space EXCEPT !.dims =
                            Put(@, space.num_dims, [copied EXCEPT !.name = NULLS])]
                     /\ ctx' = gr_set_error(ctx, GR_ERROR_OUT_OF_MEMORY,
                                            "Failed to allocate dimension name")
                     /\ ret' = GR_ERROR_OUT_OF_MEMORY
                ELSE IF ~gridOk
                THEN /\ space' = [space EXCEPT !.dims =
                            Put(@, space.num_dims,
                                [copied EXCEPT !.name = NULLS, !.grid = NULL])]
                     /\ ctx' = gr_set_error(ctx, GR_ERROR_OUT_OF_MEMORY,
                                            "Failed to build dimension grid")
                     /\ ret' = GR_ERROR_OUT_OF_MEMORY
                ELSE /\ space' = AddDimensionCommit(space, built)
                     /\ ctx' = ctx
                     /\ ret' = GR_SUCCESS

(***************************************************************************)
(* What the caller of the last operation got back besides the code: out is *)
(* the part of the output array that was written, value the double that    *)
(* was returned, flag the int that was returned, steps the step h_d a      *)
(* Hessian compute used per dimension, calls the invocations of the        *)
(* caller's pricing function in the order they were made, each with the    *)
(* coordinates it was given and the price it returned.                     *)
(***************************************************************************)
ObsNone ==
    [steps |-> NULL, out |-> NULL, value |-> Zero, flag |-> 0, calls |-> <<>>]

(***************************************************************************)
(* gr_state_space_map_prices.  allocOk is the outcome of the allocation of *)
(* the price buffer, which is requested only when there is no buffer yet.  *)
(***************************************************************************)
BufLen(buf) == IF buf = NULL THEN 0 ELSE Cardinality(DOMAIN buf.at)

\* the buffer after the loop has stored fn at every flat index below
\* total_points that the buffer holds
FillPrices(s, buf, fn) ==
    Arr([flat \in DOMAIN buf.at |->
            IF flat < s.total_points
            THEN gr_pricing_fn(fn, gr_state_space_get_coordinates(s, flat), s.num_dims)
            ELSE buf.at[flat]])

\* the invocations of fn the loop makes, one per flat index from 0 up, each
\* on the coordinate array the loop has just filled for that index
PricingCalls(s, fn) ==
    [k \in 1 .. s.total_points |->
        [coords |-> gr_state_space_get_coordinates(s, k - 1),
         price |-> gr_pricing_fn(fn, gr_state_space_get_coordinates(s, k - 1),
                                 s.num_dims)]]

\* what a load from an index outside its buffer gives: no double
Indeterminate == <<0, 0>>

\* doubles beyond the rationals of the model: 1e15, 1e300 and INFINITY
GR_1E15 == <<-1, 0>>
GR_HUGE == <<1, 0>>
GR_INFINITY == <<2, 0>>

\* x < y for doubles that may be 1e300 or INFINITY
XLt(x, y) ==
    IF x[2] = 0 THEN y[2] = 0 /\ x[1] < y[1]
    ELSE IF y[2] = 0 THEN TRUE
    ELSE RLt(x, y)

gr_state_space_get_price(s, flat_index) ==
    IF s.prices_valid = 0 \/ s.prices = NULL THEN Zero
    ELSE IF flat_index >= s.total_points THEN Zero
    ELSE IF flat_index >= BufLen(s.prices) THEN Indeterminate
    ELSE s.prices.at[flat_index]

MapPrices(fn, allocOk) ==
    /\ ~ub
    /\ UNCHANGED dl
    /\ UNCHANGED surface
    /\ op' = "map_prices"
    /\ UNCHANGED <<jac, hess, map, metric>>
    /\ IF fn = NULLS
       THEN /\ ret' = GR_ERROR_NULL_POINTER
            /\ UNCHANGED <<ctx, space, ub, obs>>
       ELSE IF space.num_dims = 0
       THEN /\ ctx' = gr_set_error(ctx, GR_ERROR_NOT_INITIALIZED,
                                   "State space has no dimensions")
            /\ ret' = GR_ERROR_NOT_INITIALIZED
            /\ UNCHANGED <<space, ub, obs>>
       ELSE IF space.prices = NULL /\ ~allocOk
       THEN /\ ctx' = gr_set_error(ctx, GR_ERROR_OUT_OF_MEMORY,
                                   "Failed to allocate price grid")
            /\ ret' = GR_ERROR_OUT_OF_MEMORY
            /\ UNCHANGED <<space, ub, obs>>
       ELSE LET buf == IF space.prices = NULL
                       THEN Arr([flat \in 0 .. space.total_points - 1 |-> Zero])
                       ELSE space.prices
            IN  /\ ctx' = ctx
                /\ ret' = GR_SUCCESS
                /\ IF space.total_points > 0 /\ DividesByZero(space)
                   THEN /\ space' = [space EXCEPT !.prices = buf]
                        /\ obs' = ObsNone
                        /\ ub' = TRUE
                   ELSE /\ space' = [space EXCEPT
                                        !.prices = FillPrices(space, buf, fn),
                                        !.prices_valid = 1]
                        /\ obs' = [ObsNone EXCEPT !.calls = PricingCalls(space, fn)]
                        \* a store at an index the buffer does not have
                        /\ ub' = (space.total_points > BufLen(buf))

(***************************************************************************)
(* gr_context_set_bump_size and gr_context_set_num_threads return nothing: *)
(* ret is the code they recorded, GR_SUCCESS when they recorded none.      *)
(***************************************************************************)
\* gr_context_set_bump_size, were it to store the bump before it validates it
SetBumpSizeStoresFirst(bump) ==
    /\ ~ub
    /\ UNCHANGED dl
    /\ UNCHANGED surface
    /\ op' = "set_bump_size"
    /\ UNCHANGED <<space, jac, hess, map, metric, ub, obs>>
    /\ IF RLe(bump, Zero) \/ RGt(bump, Rat(1, 10))
       THEN /\ ctx' = gr_set_error([ctx EXCEPT !.bump_size = bump],
                                   GR_ERROR_INVALID_ARGUMENT,
                                   "Bump size must be positive")
            /\ ret' = GR_ERROR_INVALID_ARGUMENT
       ELSE /\ ctx' = [ctx EXCEPT !.bump_size = bump]
            /\ ret' = GR_SUCCESS

SetBumpSize(bump) ==
    /\ ~ub
    /\ UNCHANGED dl
    /\ UNCHANGED surface
    /\ op' = "set_bump_size"
    /\ UNCHANGED <<space, jac, hess, map, metric, ub, obs>>
    /\ IF RLe(bump, Zero)
       THEN /\ ctx' = gr_set_error(ctx, GR_ERROR_INVALID_ARGUMENT,
                                   "Bump size must be positive")
            /\ ret' = GR_ERROR_INVALID_ARGUMENT
       ELSE IF RGt(bump, Rat(1, 10))
       THEN /\ ctx' = gr_set_error(ctx, GR_ERROR_INVALID_ARGUMENT,
                                   "Bump size too large (max 0.1)")
            /\ ret' = GR_ERROR_INVALID_ARGUMENT
       ELSE /\ ctx' = [ctx EXCEPT !.bump_size = bump]
            /\ ret' = GR_SUCCESS

SetNumThreads(threads) ==
    /\ ~ub
    /\ UNCHANGED dl
    /\ UNCHANGED surface
    /\ op' = "set_num_threads"
    /\ UNCHANGED <<space, jac, hess, map, metric, obs>>
    /\ IF threads < 1
       THEN /\ ctx' = gr_set_error(ctx, GR_ERROR_INVALID_ARGUMENT,
                                   "Thread count must be at least 1")
            /\ ret' = GR_ERROR_INVALID_ARGUMENT
            /\ ub' = ub
       ELSE /\ ctx' = [ctx EXCEPT !.num_threads = threads]
            /\ ret' = GR_SUCCESS
            \* the Monte Carlo engine, when loaded, is told the count
            /\ ub' = (/\ ctx.mco_loaded # 0
                      /\ ctx.mco.context_set_num_threads # 0
                      /\ ~Callable(dl, ctx.mco.context_set_num_threads))

(***************************************************************************)
(* Pricing engines (context.c, bridge.h, mco_bridge.c, fdp_bridge.c).      *)
(***************************************************************************)
\* the function of the finite-difference vtable for a style and type
FdpEntry(vt, style, type) ==
    CASE style = "GR_STYLE_EUROPEAN" ->
           IF type = "GR_TYPE_CALL" /\ vt.price_european_call # 0
           THEN vt.price_european_call
           ELSE IF type = "GR_TYPE_PUT" /\ vt.price_european_put # 0
           THEN vt.price_european_put
           ELSE 0
      [] style = "GR_STYLE_AMERICAN" ->
           IF type = "GR_TYPE_CALL" /\ vt.price_american_call # 0
           THEN vt.price_american_call
           ELSE IF type = "GR_TYPE_PUT" /\ vt.price_american_put # 0
           THEN vt.price_american_put
           ELSE 0
      [] OTHER -> 0

\* the function of the Monte Carlo vtable for a style and type; American
\* options are priced by the European functions
McoEntry(vt, style, type) ==
    CASE style \in {"GR_STYLE_EUROPEAN", "GR_STYLE_AMERICAN"} ->
           IF type = "GR_TYPE_CALL" /\ vt.european_call # 0
           THEN vt.european_call
           ELSE IF type = "GR_TYPE_PUT" /\ vt.european_put # 0
           THEN vt.european_put
           ELSE 0
      [] style = "GR_STYLE_ASIAN" ->
           IF type = "GR_TYPE_CALL" /\ vt.asian_call # 0
           THEN vt.asian_call
           ELSE IF type = "GR_TYPE_PUT" /\ vt.asian_put # 0
           THEN vt.asian_put
           ELSE 0
      [] OTHER -> 0

\* gr_bridge_price_vanilla: the function it calls, 0 when it calls none
gr_bridge_price_vanilla(c, engine, style, type) ==
    LET use_mco == CASE engine = "GR_ENGINE_MCO" -> c.mco_loaded
                     [] engine = "GR_ENGINE_FDP" -> 0
                     [] OTHER ->
                          IF style = "GR_STYLE_ASIAN" THEN c.mco_loaded
                          ELSE IF c.fdp_loaded # 0 THEN 0 ELSE c.mco_loaded
        use_fdp == CASE engine = "GR_ENGINE_MCO" -> 0
                     [] engine = "GR_ENGINE_FDP" -> c.fdp_loaded
                     [] OTHER ->
                          IF style = "GR_STYLE_ASIAN"
                          THEN IF c.mco_loaded # 0 THEN 0 ELSE c.fdp_loaded
                          ELSE c.fdp_loaded
        fdpfn == IF use_fdp # 0 /\ c.fdp_loaded # 0
                 THEN FdpEntry(c.fdp, style, type) ELSE 0
        mcofn == IF use_mco # 0 /\ c.mco_loaded # 0
                 THEN McoEntry(c.mco, style, type) ELSE 0
    IN  IF fdpfn # 0 THEN fdpfn ELSE mcofn

\* gr_context_set_mco_library
SetMcoLibrary(path, ctxOk) ==
    /\ ~ub
    /\ op' = "set_mco_library"
    /\ UNCHANGED <<space, jac, hess, map, metric, surface, obs>>
    /\ IF path = NULLS
       THEN /\ ret' = GR_ERROR_NULL_POINTER
            /\ UNCHANGED <<ctx, dl, ub>>
       ELSE \E r \in {gr_bridge_load_mco(gr_clear_error(ctx), dl, path, ctxOk)} :
               /\ ctx' = r.ctx
               /\ dl' = r.dl
               /\ ret' = r.ret
               /\ ub' = r.ub

\* gr_context_set_fdp_library
SetFdpLibrary(path, ctxOk) ==
    /\ ~ub
    /\ op' = "set_fdp_library"
    /\ UNCHANGED <<space, jac, hess, map, metric, surface, obs>>
    /\ IF path = NULLS
       THEN /\ ret' = GR_ERROR_NULL_POINTER
            /\ UNCHANGED <<ctx, dl, ub>>
       ELSE \E r \in {gr_bridge_load_fdp(gr_clear_error(ctx), dl, path, ctxOk)} :
               /\ ctx' = r.ctx
               /\ dl' = r.dl
               /\ ret' = r.ret
               /\ ub' = r.ub

\* gr_context_free: both engines are unloaded, then the context is freed
ContextFree ==
    /\ ~ub
    /\ op' = "context_free"
    /\ ret' = GR_SUCCESS
    /\ UNCHANGED <<space, jac, hess, map, metric, surface, obs>>
    /\ \E m \in {gr_bridge_unload_mco(ctx, dl)} :
       \E f \in {gr_bridge_unload_fdp(m.ctx, m.dl)} :
          /\ ctx' = NULL
          /\ dl' = f.dl
          /\ ub' = (m.ub \/ f.ub)

\* gr_bridge_price_vanilla; price is what the engine returns when called.
\* obs.out is the request, obs.flag the function that was called.
PriceVanilla(engine, style, type, price) ==
    /\ ~ub
    /\ op' = "bridge_price_vanilla"
    /\ UNCHANGED <<space, jac, hess, map, metric, surface, dl>>
    /\ \E fn \in {gr_bridge_price_vanilla(ctx, engine, style, type)} :
          IF fn # 0
          THEN /\ ctx' = ctx
               /\ ret' = GR_SUCCESS
               /\ obs' = [ObsNone EXCEPT
                             !.out = [style |-> style, type |-> type],
                             !.value = price, !.flag = fn]
               /\ ub' = ~Callable(dl, fn)
          ELSE /\ ctx' = gr_set_error(ctx, GR_ERROR_PRICING_ENGINE_FAILED,
                                      "No pricing engine available")
               /\ ret' = GR_ERROR_PRICING_ENGINE_FAILED
               /\ obs' = [ObsNone EXCEPT
                             !.out = [style |-> style, type |-> type]]
               /\ ub' = ub

\* gr_mco_european_call
McoEuropeanCall(price) ==
    /\ ~ub
    /\ op' = "mco_european_call"
    /\ UNCHANGED <<space, jac, hess, map, metric, surface, dl>>
    /\ IF ctx.mco_loaded = 0
       THEN /\ ctx' = ctx
            /\ ret' = GR_SUCCESS
            /\ obs' = [ObsNone EXCEPT !.out = [style |-> "GR_STYLE_EUROPEAN",
                                               type |-> "GR_TYPE_CALL"]]
            /\ ub' = ub
       ELSE IF ctx.mco.european_call = 0
       THEN /\ ctx' = gr_set_error(ctx, GR_ERROR_NOT_INITIALIZED,
                                   "European call not available in mcoptions")
            /\ ret' = GR_ERROR_NOT_INITIALIZED
            /\ obs' = [ObsNone EXCEPT !.out = [style |-> "GR_STYLE_EUROPEAN",
                                               type |-> "GR_TYPE_CALL"]]
            /\ ub' = ub
       ELSE /\ ctx' = ctx
            /\ ret' = GR_SUCCESS
            /\ obs' = [ObsNone EXCEPT !.out = [style |-> "GR_STYLE_EUROPEAN",
                                               type |-> "GR_TYPE_CALL"],
                                      !.value = price,
                                      !.flag = ctx.mco.european_call]
            /\ ub' = ~Callable(dl, ctx.mco.european_call)

\* gr_fdp_european_call
FdpEuropeanCall(price) ==
    /\ ~ub
    /\ op' = "fdp_european_call"
    /\ UNCHANGED <<space, jac, hess, map, metric, surface, dl>>
    /\ IF ctx.fdp_loaded = 0
       THEN /\ ctx' = ctx
            /\ ret' = GR_SUCCESS
            /\ obs' = [ObsNone EXCEPT !.out = [style |-> "GR_STYLE_EUROPEAN",
                                               type |-> "GR_TYPE_CALL"]]
            /\ ub' = ub
       ELSE IF ctx.fdp.price_european_call = 0
       THEN /\ ctx' = gr_set_error(ctx, GR_ERROR_NOT_INITIALIZED,
                                   "European call not available in fdpricing")
            /\ ret' = GR_ERROR_NOT_INITIALIZED
            /\ obs' = [ObsNone EXCEPT !.out = [style |-> "GR_STYLE_EUROPEAN",
                                               type |-> "GR_TYPE_CALL"]]
            /\ ub' = ub
       ELSE /\ ctx' = ctx
            /\ ret' = GR_SUCCESS
            /\ obs' = [ObsNone EXCEPT !.out = [style |-> "GR_STYLE_EUROPEAN",
                                               type |-> "GR_TYPE_CALL"],
                                      !.value = price,
                                      !.flag = ctx.fdp.price_european_call]
            /\ ub' = ~Callable(dl, ctx.fdp.price_european_call)

(***************************************************************************)
(* Inputs.                                                                 *)
(***************************************************************************)
DimA == [type |-> "GR_DIM_SPOT", name |-> "spot", min_value |-> Zero,
         max_value |-> Two, current |-> One, num_points |-> 3]

DimB == [type |-> "GR_DIM_VOLATILITY", name |-> NULLS, min_value |-> Zero,
         max_value |-> One, current |-> Zero, num_points |-> 2]

DimQ == [type |-> "GR_DIM_CUSTOM", name |-> NULLS, min_value |-> Zero,
         max_value |-> R(3), current |-> Zero, num_points |-> 4]

DimFewPoints == [DimB EXCEPT !.num_points = 1]

DimEmptyRange == [DimB EXCEPT !.min_value = One]

DimInputs == {DimA, DimB, DimFewPoints, DimEmptyRange, NULL}

WideDimInputs == {DimQ, DimFewPoints, NULL}

FnInputs == {"simple_quadratic", "cross_term", NULLS}

BumpInputs == {GR_DEFAULT_BUMP, Rat(1, 10), Zero, Rat(1, 5)}

ThreadInputs == {0, 1, 2}

(***************************************************************************)
(* The state after gr_context_new and gr_state_space_new.                  *)
(***************************************************************************)
Init ==
    /\ ctx = gr_context_new
    /\ space = gr_state_space_new
    /\ jac = NULL
    /\ hess = NULL
    /\ map = NULL
    /\ metric = NULL
    /\ surface = NULL
    /\ op = "new"
    /\ ret = GR_SUCCESS
    /\ ub = FALSE
    /\ dl = DlInit
    /\ obs = ObsNone

(***************************************************************************)
(* Spec: the state space and the context.                                  *)
(***************************************************************************)
AddDim ==
    \E dim \in DimInputs, nameOk \in BOOLEAN, gridOk \in BOOLEAN :
        /\ space.num_dims < MaxDims
        /\ AddDimension(dim, nameOk, gridOk)

Map == \E fn \in FnInputs, allocOk \in BOOLEAN : MapPrices(fn, allocOk)

SetBump == \E bump \in BumpInputs : SetBumpSize(bump)

SetThreads == \E threads \in ThreadInputs : SetNumThreads(threads)

Next == AddDim \/ Map \/ SetBump \/ SetThreads

Spec == Init /\ [][Next]_vars

(***************************************************************************)
(* SpecWide: dimensions added up to the capacity of the state space, with  *)
(* point counts whose product does not fit size_t.                         *)
(***************************************************************************)
AddDimWide ==
    \E dim \in WideDimInputs, nameOk \in BOOLEAN, gridOk \in BOOLEAN :
        AddDimension(dim, nameOk, gridOk)

NextWide == AddDimWide

SpecWide == Init /\ [][NextWide]_vars

(***************************************************************************)
(* Properties of the state space.                                          *)
(***************************************************************************)
RECURSIVE PointCount(_, _)
\* the product of the point counts of dimensions 0 .. n-1, or SizeMod when
\* the product is SizeMod or more (no size_t holds it then)
PointCount(dims, n) ==
    IF n = 0 THEN 1
    ELSE LET rest == PointCount(dims, n - 1)
         IN  IF rest * dims[n - 1].num_points >= SizeMod THEN SizeMod
             ELSE rest * dims[n - 1].num_points

\* C1: after any sequence of add_dimension calls, once there is a dimension,
\* total_points is the product of the point counts, the last stride is 1 and
\* every other stride is the next stride times the next point count, so the
\* strides strictly decrease.
C1_StridesAndTotalPoints ==
    space.num_dims >= 1 =>
        /\ space.total_points = PointCount(space.dims, space.num_dims)
        /\ space.strides[space.num_dims - 1] = 1
        /\ \A d \in 0 .. space.num_dims - 2 :
              /\ space.strides[d]
                    = space.strides[d + 1] * space.dims[d + 1].num_points
              /\ space.strides[d] > space.strides[d + 1]

\* the in-range multi-indices with at most one non-zero coordinate
AxisIndices(s) ==
    UNION {{[d \in 0 .. s.num_dims - 1 |-> IF d = e THEN i ELSE 0] :
                i \in 0 .. s.dims[e].num_points - 1} :
           e \in 0 .. s.num_dims - 1}

\* C2: flat_index(multi_index(k)) = k for every flat index k below
\* total_points, and multi_index(flat_index(m)) = m for in-range multi-indices
\* m (those of AxisIndices); a division by a zero stride is no round trip.
C2_IndexRoundTrip ==
    /\ \A k \in 0 .. space.total_points - 1 :
          /\ ~DividesByZero(space)
          /\ gr_state_space_flat_index(space,
                gr_state_space_multi_index(space, k)) = k
    /\ \A m \in AxisIndices(space) :
          /\ ~DividesByZero(space)
          /\ gr_state_space_multi_index(space,
                gr_state_space_flat_index(space, m)) = m

\* C3: a successful add_dimension leaves the prices not valid, and the
\* prices go from not valid to valid only in a successful map_prices.
C3_PricesValidOnlyByMapping ==
    [][/\ (op' = "add_dimension" /\ ret' = GR_SUCCESS)
            => space'.prices_valid = 0
       /\ (space.prices_valid = 0 /\ space'.prices_valid = 1)
            => (op' = "map_prices" /\ ret' = GR_SUCCESS)]_vars

\* a dimension was added to a space whose prices had been mapped
C3_Witness ==
    /\ op = "add_dimension"
    /\ ret = GR_SUCCESS
    /\ space.prices # NULL
    /\ space.prices_valid = 0

\* C4: when map_prices has run, the buffer it filled has exactly
\* total_points entries and no index it used lies outside the buffer.
C4_BufferHoldsGrid ==
    (op = "map_prices" /\ ret = GR_SUCCESS) =>
        /\ BufLen(space.prices) = space.total_points
        /\ ~ub

\* C18: a successful map_prices has called the pricing function once per
\* flat index, in ascending order of the index and on the coordinates of
\* that node, has left the grids of the dimensions as they were, and
\* get_price(k) gives the price the call for node k returned.
C18_OneCallPerNode ==
    /\ []((op = "map_prices" /\ ret = GR_SUCCESS) =>
            /\ Len(obs.calls) = space.total_points
            /\ \A k \in 0 .. space.total_points - 1 :
                  /\ obs.calls[k + 1].coords
                        = gr_state_space_get_coordinates(space, k)
                  /\ gr_state_space_get_price(space, k) = obs.calls[k + 1].price)
    /\ [][op' = "map_prices" => space'.dims = space.dims]_vars

(***************************************************************************)
(* gr_state_space_interpolate_price: multilinear interpolation, clamped to *)
(* the grid range.                                                         *)
(***************************************************************************)
\* lo, hi and t of one dimension
Bracket(dim, val) ==
    IF RLe(val, dim.min_value) THEN [lo |-> 0, hi |-> 0, t |-> Zero]
    ELSE IF RGe(val, dim.max_value)
    THEN [lo |-> dim.num_points - 1, hi |-> dim.num_points - 1, t |-> Zero]
    ELSE LET hits == {i \in 0 .. dim.num_points - 2 :
                        RGe(val, dim.grid.at[i]) /\ RLe(val, dim.grid.at[i + 1])}
             i == CHOOSE k \in hits : \A m \in hits : k <= m
             range == RSub(dim.grid.at[i + 1], dim.grid.at[i])
         IN  [lo |-> i, hi |-> i + 1,
              t |-> IF ~RTiny(range) /\ RGt(range, Zero)
                    THEN RDiv(RSub(val, dim.grid.at[i]), range) ELSE Zero]

RECURSIVE CornerWeight(_, _, _)
\* the weight of a corner over dimensions 0 .. d
CornerWeight(br, corner, d) ==
    IF d < 0 THEN One
    ELSE RMul(CornerWeight(br, corner, d - 1),
              IF (corner \div (2 ^ d)) % 2 = 1 THEN br[d].t
              ELSE RSub(One, br[d].t))

RECURSIVE CornerSum(_, _, _)
\* the sum over corners 0 .. corner
CornerSum(s, br, corner) ==
    IF corner < 0 THEN Zero
    ELSE LET indices == [d \in 0 .. s.num_dims - 1 |->
                            IF (corner \div (2 ^ d)) % 2 = 1 THEN br[d].hi
                            ELSE br[d].lo]
             flat == gr_state_space_flat_index(s, indices)
         IN  RAdd(CornerSum(s, br, corner - 1),
                  RMul(CornerWeight(br, corner, s.num_dims - 1), s.prices.at[flat]))

gr_state_space_interpolate_price(s, coordinates) ==
    IF s.prices_valid = 0 \/ s.prices = NULL THEN Zero
    ELSE LET br == [d \in 0 .. s.num_dims - 1 |-> Bracket(s.dims[d], coordinates[d])]
         IN  CornerSum(s, br, 2 ^ s.num_dims - 1)

\* gr_state_space_interpolate_price as the caller sees it: it returns a
\* double, kept in obs.value, and neither returns nor records a code
InterpolatePrice(coordinates) ==
    /\ ~ub
    /\ UNCHANGED dl
    /\ op' = "interpolate_price"
    /\ ret' = GR_SUCCESS
    /\ UNCHANGED <<ctx, space, jac, hess, map, metric, surface>>
    /\ IF space.prices_valid = 0 \/ space.prices = NULL
       THEN obs' = ObsNone /\ ub' = ub
       \* coordinates[d] is read without a check
       ELSE IF coordinates = NULL
       THEN obs' = ObsNone /\ ub' = TRUE
       ELSE /\ obs' = [ObsNone EXCEPT !.value =
                        gr_state_space_interpolate_price(space, coordinates.at)]
            /\ ub' = ub

\* x with coordinate i moved by delta
Bumped(x, i, delta) == [x EXCEPT ![i] = RAdd(@, delta)]

(***************************************************************************)
(* Jacobian (jacobian.h, jacobian.c).                                      *)
(***************************************************************************)
gr_jacobian_new(n) ==
    [num_dims |-> n,
     partials |-> [i \in 0 .. n - 1 |-> Zero],
     point |-> [i \in 0 .. n - 1 |-> Zero],
     value |-> Zero,
     valid |-> 0]

\* the object after a compute that got past the argument checks; bufOk is
\* the outcome of the allocation of the bump buffer
gr_jacobian_compute(j, c, s, point, bufOk) ==
    LET stored == [j EXCEPT !.point = point,
                            !.value = gr_state_space_interpolate_price(s, point)]
        partial(d) ==
            LET scaled_h == RMul(c.bump_size,
                                 RSub(s.dims[d].max_value, s.dims[d].min_value))
                f_plus == gr_state_space_interpolate_price(s, Bumped(point, d, scaled_h))
                f_minus == gr_state_space_interpolate_price(s, Bumped(point, d, RNeg(scaled_h)))
            IN  RDiv(RSub(f_plus, f_minus), RMul(Two, scaled_h))
    IN  IF ~bufOk THEN stored
        ELSE [stored EXCEPT !.partials = [d \in 0 .. j.num_dims - 1 |-> partial(d)],
                            !.valid = 1]

JacobianNew(n, allocOk) ==
    /\ ~ub
    /\ UNCHANGED dl
    /\ UNCHANGED surface
    /\ jac = NULL
    /\ op' = "jacobian_new"
    /\ UNCHANGED <<space, hess, map, metric, ub, obs>>
    /\ IF n < 1 \/ n > GR_MAX_DIMENSIONS
       THEN /\ ctx' = gr_set_error(ctx, GR_ERROR_INVALID_ARGUMENT,
                                   "Invalid number of dimensions")
            /\ ret' = GR_ERROR_INVALID_ARGUMENT
            /\ jac' = jac
       ELSE IF ~allocOk
       THEN /\ ctx' = gr_set_error(ctx, GR_ERROR_OUT_OF_MEMORY,
                                   "Failed to allocate Jacobian")
            /\ ret' = GR_ERROR_OUT_OF_MEMORY
            /\ jac' = jac
       ELSE /\ ctx' = ctx
            /\ ret' = GR_SUCCESS
            /\ jac' = gr_jacobian_new(n)

JacobianCompute(point, bufOk) ==
    /\ ~ub
    /\ UNCHANGED dl
    /\ UNCHANGED surface
    /\ jac # NULL
    /\ op' = "jacobian_compute"
    /\ UNCHANGED <<space, hess, map, metric, ub, obs>>
    /\ IF point = NULL
       THEN /\ ret' = GR_ERROR_NULL_POINTER
            /\ UNCHANGED <<ctx, jac>>
       ELSE IF jac.num_dims # space.num_dims
       THEN /\ ctx' = gr_set_error(ctx, GR_ERROR_DIMENSION_MISMATCH,
                                   "Jacobian dimensions don't match state space")
            /\ ret' = GR_ERROR_DIMENSION_MISMATCH
            /\ jac' = jac
       ELSE IF space.prices_valid = 0
       THEN /\ ctx' = gr_set_error(ctx, GR_ERROR_NOT_INITIALIZED,
                                   "State space prices not computed")
            /\ ret' = GR_ERROR_NOT_INITIALIZED
            /\ jac' = jac
       ELSE /\ jac' = gr_jacobian_compute(jac, ctx, space, point.at, bufOk)
            /\ IF bufOk
               THEN ctx' = ctx /\ ret' = GR_SUCCESS
               ELSE /\ ctx' = gr_set_error(ctx, GR_ERROR_OUT_OF_MEMORY,
                                           "Failed to allocate bump buffer")
                    /\ ret' = GR_ERROR_OUT_OF_MEMORY

(***************************************************************************)
(* Hessian (internal/hessian.h, hessian.c).  hessian.c holds two           *)
(* implementations of the public functions, one after the other; impl      *)
(* tells which of them ("A", the first, or "B", the second) the object is  *)
(* computed with.  The sources hold internal/hessian.h twice as well; the  *)
(* copies differ in the order gr_eigenvalues_jacobi leaves the eigenvalues *)
(* in, and jacobi tells which copy is compiled in: "abs" (descending       *)
(* fabs) or "signed" (descending value).                                   *)
(***************************************************************************)
gr_hessian_new(n, impl, jacobi) ==
    [impl |-> impl,
     jacobi |-> jacobi,
     num_dims |-> n,
     data |-> [k \in 0 .. n * n - 1 |-> Zero],
     point |-> [i \in 0 .. n - 1 |-> Zero],
     eigenvalues |-> [i \in 0 .. n - 1 |-> Zero],
     valid |-> 0,
     eigen_valid |-> 0]

\* gr_hessian_set_symmetric storing entry (i, j) only
gr_hessian_set_upper(data, n, i, j, val) == [data EXCEPT ![i * n + j] = val]

gr_hessian_set_symmetric(data, n, i, j, val) ==
    [data EXCEPT ![i * n + j] = val, ![j * n + i] = val]

\* the central second difference of F at x: in dimension i with step hi, or
\* mixed in dimensions i and j with steps hi and hj
SecondDifference(F(_), x, i, j, hi, hj) ==
    IF i = j
    THEN RDiv(RAdd(RSub(F(Bumped(x, i, hi)), RMul(Two, F(x))),
                   F(Bumped(x, i, RNeg(hi)))),
              RMul(hi, hi))
    ELSE LET f_pp == F(Bumped(Bumped(x, i, hi), j, hj))
             f_pm == F(Bumped(Bumped(x, i, hi), j, RNeg(hj)))
             f_mm == F(Bumped(Bumped(x, i, RNeg(hi)), j, RNeg(hj)))
             f_mp == F(Bumped(Bumped(x, i, RNeg(hi)), j, hj))
         IN  RDiv(RAdd(RSub(RSub(f_pp, f_pm), f_mp), f_mm),
                  RMul(RMul(R(4), hi), hj))

\* the entries (i, j), j >= i, as the loops compute them, row-major
HessianEntries(F(_), n, x, h) ==
    [k \in {m \in 0 .. n * n - 1 : m % n >= m \div n} |->
        SecondDifference(F, x, k \div n, k % n, h[k \div n], h[k % n])]

RECURSIVE HessianFill(_, _, _, _)
\* data after gr_hessian_set_symmetric has stored the entries up to index k
HessianFill(data, n, vals, k) ==
    IF k < 0 THEN data
    ELSE LET rest == HessianFill(data, n, vals, k - 1)
         IN  IF k % n < k \div n THEN rest
             ELSE gr_hessian_set_symmetric(rest, n, k \div n, k % n, vals[k])

\* the step of implementation A: the bump of the context, or the grid step
\* of dimension 0 when the bump is below 1e-6
HessianStepA(c, s) ==
    IF RLe(c.bump_size, Zero) \/ RLt(c.bump_size, Rat(1, 1000000))
    THEN IF s.num_dims > 0 /\ s.dims[0].num_points > 1
         THEN RDiv(RSub(s.dims[0].max_value, s.dims[0].min_value),
                   R(s.dims[0].num_points - 1))
         ELSE Rat(1, 100)
    ELSE c.bump_size

\* the step of implementation B in dimension d
HessianStepB(c, s, d) ==
    RMul(c.bump_size, RSub(s.dims[d].max_value, s.dims[d].min_value))

\* the matrix implementation A stores for the point x: every entry written
HessianDataA(c, s, n, x) ==
    LET F(y) == gr_state_space_interpolate_price(s, y)
        vals == HessianEntries(F, n, x, [d \in 0 .. n - 1 |-> HessianStepA(c, s)])
        lo(k) == IF k % n < k \div n THEN k % n ELSE k \div n
        hi(k) == IF k % n < k \div n THEN k \div n ELSE k % n
    IN  [k \in 0 .. n * n - 1 |-> vals[lo(k) * n + hi(k)]]

\* the matrix implementation B makes of data for the point x
HessianDataB(c, s, data, n, x) ==
    LET F(y) == gr_state_space_interpolate_price(s, y)
        vals == HessianEntries(F, n, x, [d \in 0 .. n - 1 |-> HessianStepB(c, s, d)])
    IN  HessianFill(data, n, vals, n * n - 1)

\* the end of implementation B and of compute_direct, without the reset of
\* eigen_valid
HessianMarkComputedKeepsCache(h, data) ==
    [h EXCEPT !.data = data, !.valid = 1]

\* the end of implementation B and of compute_direct
HessianMarkComputed(h, data) ==
    [h EXCEPT !.data = data, !.valid = 1, !.eigen_valid = 0]

HessianNew(n, impl, jacobi, allocOk) ==
    /\ ~ub
    /\ UNCHANGED dl
    /\ UNCHANGED surface
    /\ hess = NULL
    /\ op' = "hessian_new"
    /\ UNCHANGED <<space, jac, map, metric, ub, obs>>
    /\ IF n <= 0 \/ n > GR_MAX_DIMENSIONS
       THEN /\ ctx' = gr_set_error(ctx, GR_ERROR_INVALID_ARGUMENT,
                                   "Invalid number of dimensions")
            /\ ret' = GR_ERROR_INVALID_ARGUMENT
            /\ hess' = hess
       ELSE IF ~allocOk
       THEN /\ ctx' = gr_set_error(ctx, GR_ERROR_OUT_OF_MEMORY,
                                   "Failed to allocate Hessian")
            /\ ret' = GR_ERROR_OUT_OF_MEMORY
            /\ hess' = hess
       ELSE /\ ctx' = ctx
            /\ ret' = GR_SUCCESS
            /\ hess' = gr_hessian_new(n, impl, jacobi)

\* gr_hessian_compute; point is NULL or an array of num_dims coordinates,
\* bufOk the outcome of the allocation of the working buffer
HessianCompute(point, bufOk) ==
    LET n == hess.num_dims
        hA == [d \in 0 .. n - 1 |-> HessianStepA(ctx, space)]
        hB == [d \in 0 .. n - 1 |-> HessianStepB(ctx, space, d)]
    IN
    /\ ~ub
    /\ UNCHANGED dl
    /\ UNCHANGED surface
    /\ hess # NULL
    /\ op' = "hessian_compute"
    /\ UNCHANGED <<space, jac, map, metric, ub>>
    /\ IF point = NULL
       THEN /\ ret' = GR_ERROR_NULL_POINTER
            /\ UNCHANGED <<ctx, hess, obs>>
       ELSE IF n # space.num_dims
       THEN /\ ctx' = gr_set_error(ctx, GR_ERROR_DIMENSION_MISMATCH,
                        IF hess.impl = "A" THEN "Dimension mismatch"
                        ELSE "Hessian dimensions don't match state space")
            /\ ret' = GR_ERROR_DIMENSION_MISMATCH
            /\ UNCHANGED <<hess, obs>>
       ELSE IF hess.impl = "A"
       THEN LET stored == [hess EXCEPT !.point = point.at, !.eigen_valid = 0]
            IN  IF ~bufOk
                THEN /\ hess' = stored
                     /\ ctx' = gr_set_error(ctx, GR_ERROR_OUT_OF_MEMORY,
                                            "Failed to allocate temp array")
                     /\ ret' = GR_ERROR_OUT_OF_MEMORY
                     /\ obs' = obs
                ELSE /\ hess' = [stored EXCEPT
                                    !.data = HessianDataA(ctx, space, n, point.at),
                                    !.valid = 1]
                     /\ ctx' = ctx
                     /\ ret' = GR_SUCCESS
                     /\ obs' = [ObsNone EXCEPT !.steps = Arr(hA)]
       ELSE IF space.prices_valid = 0
       THEN /\ ctx' = gr_set_error(ctx, GR_ERROR_NOT_INITIALIZED,
                                   "State space prices not computed")
            /\ ret' = GR_ERROR_NOT_INITIALIZED
            /\ UNCHANGED <<hess, obs>>
       ELSE IF ~bufOk
       THEN /\ hess' = [hess EXCEPT !.point = point.at]
            /\ ctx' = gr_set_error(ctx, GR_ERROR_OUT_OF_MEMORY,
                                   "Failed to allocate bump buffer")
            /\ ret' = GR_ERROR_OUT_OF_MEMORY
            /\ obs' = obs
       ELSE /\ hess' = HessianMarkComputed(
                            [hess EXCEPT !.point = point.at],
                            HessianDataB(ctx, space, hess.data, n, point.at))
            /\ ctx' = ctx
            /\ ret' = GR_SUCCESS
            /\ obs' = [ObsNone EXCEPT !.steps = Arr(hB)]

\* gr_hessian_compute_direct (second implementation): fn is evaluated
\* directly, with step bump, or the bump of the context when bump <= 0
HessianComputeDirect(fn, point, bump, bufOk) ==
    LET n == hess.num_dims
        F(x) == gr_pricing_fn(fn, x, n)
        h == IF RGt(bump, Zero) THEN bump ELSE ctx.bump_size
        vals == HessianEntries(F, n, point.at, [d \in 0 .. n - 1 |-> h])
    IN
    /\ ~ub
    /\ UNCHANGED dl
    /\ UNCHANGED surface
    /\ hess # NULL
    /\ hess.impl = "B"
    /\ op' = "hessian_compute_direct"
    /\ UNCHANGED <<space, jac, map, metric, ub, obs>>
    /\ IF fn = NULLS \/ point = NULL
       THEN /\ ret' = GR_ERROR_NULL_POINTER
            /\ UNCHANGED <<ctx, hess>>
       ELSE IF ~bufOk
       THEN /\ hess' = [hess EXCEPT !.point = point.at]
            /\ ctx' = gr_set_error(ctx, GR_ERROR_OUT_OF_MEMORY,
                                   "Failed to allocate bump buffer")
            /\ ret' = GR_ERROR_OUT_OF_MEMORY
       ELSE /\ hess' = HessianMarkComputed(
                            [hess EXCEPT !.point = point.at],
                            HessianFill(hess.data, n, vals, n * n - 1))
            /\ ctx' = ctx
            /\ ret' = GR_SUCCESS

(***************************************************************************)
(* Jacobi eigenvalue iteration (internal/hessian.h).  M is an n x n matrix *)
(* stored row-major on 0 .. n*n-1.                                         *)
(***************************************************************************)
GR_JACOBI_MAX_ITER == 100

\* The tolerance 1e-12 in the unit the entries of a matrix are counted in.
\* Counted in ones, a non-zero entry of the model is at least 2^-31, the
\* tolerance is below every one of them and is written Zero; a matrix of
\* very small entries is counted in units of 1e-13.
GR_JACOBI_TOL == Zero

GR_JACOBI_TOL_E13 == R(10)

RECURSIVE OffDiagSquares(_, _, _)
\* the sum of M[i,j]^2 over the pairs i < j from flat index k on
OffDiagSquares(M, n, k) ==
    IF k >= n * n THEN Zero
    ELSE IF k \div n < k % n
    THEN RAdd(RMul(M[k], M[k]), OffDiagSquares(M, n, k + 1))
    ELSE OffDiagSquares(M, n, k + 1)

\* gr_jacobi_off_diag_norm(M, n) < tol, compared by the squares
OffDiagBelowTol(M, n, tol) ==
    IF tol = Zero
    THEN \A i \in 0 .. n - 1 : \A j \in i + 1 .. n - 1 : M[i * n + j] = Zero
    ELSE RLt(RMul(Two, OffDiagSquares(M, n, 0)), RMul(tol, tol))

\* max_val < tol, max_val the largest |M[i,j]| over the pairs i < j (for
\* n = 1 the element read at index 1 lies outside the matrix)
MaxOffDiagBelowTol(M, n, tol) ==
    \A i \in 0 .. n - 1 : \A j \in i + 1 .. n - 1 :
        IF tol = Zero THEN M[i * n + j] = Zero
        ELSE RLt(RAbs(M[i * n + j]), tol)

\* the first pair, in scan order, with the largest |M[i,j]|, as <<p, q>>
gr_jacobi_find_max_off_diag(M, n) ==
    LET pairs == {pr \in (0 .. n - 1) \X (0 .. n - 1) : pr[1] < pr[2]}
        val(pr) == RAbs(M[pr[1] * n + pr[2]])
        before(a, b) == a[1] < b[1] \/ (a[1] = b[1] /\ a[2] < b[2])
    IN  IF \A pr \in pairs : val(pr) = Zero THEN <<0, 1>>
        ELSE CHOOSE pr \in pairs :
                \A o \in pairs :
                    \/ RGt(val(pr), val(o))
                    \/ (val(pr) = val(o) /\ (pr = o \/ before(pr, o)))

\* one rotation in the plane (p, q).  With t = 2 * theta: cos t and sin t
\* are the cosine and sine of atan2(2 apq, aqq - app), or of pi/2 when
\* app = aqq; c and s follow by the half-angle formulas (theta lies in
\* (-pi/2, pi/2], so c >= 0 and s has the sign of sin t).
JacobiRotate(M, n, p, q) ==
    LET app == M[p * n + p]
        aqq == M[q * n + q]
        apq == M[p * n + q]
        same == RTiny(RSub(app, aqq))
        r == Sqrt(RAdd(RMul(RSub(aqq, app), RSub(aqq, app)),
                       RMul(R(4), RMul(apq, apq))))
        cos2 == IF same THEN Zero ELSE RDiv(RSub(aqq, app), r)
        sin2 == IF same THEN One ELSE RDiv(RMul(Two, apq), r)
        cc == RDiv(RAdd(One, cos2), Two)
        ss == RDiv(RSub(One, cos2), Two)
        c == Sqrt(cc)
        s == IF sin2[1] < 0 THEN RNeg(Sqrt(ss)) ELSE Sqrt(ss)
        entry(k) ==
            LET i == k \div n
                j == k % n
                o == IF i = p \/ i = q THEN j ELSE i
                Mop == M[o * n + p]
                Moq == M[o * n + q]
            IN  IF (i = p /\ j = q) \/ (i = q /\ j = p) THEN Zero
                ELSE IF i = p /\ j = p
                THEN RAdd(RSub(RMul(cc, app), RMul(sin2, apq)), RMul(ss, aqq))
                ELSE IF i = q /\ j = q
                THEN RAdd(RAdd(RMul(ss, app), RMul(sin2, apq)), RMul(cc, aqq))
                ELSE IF j = p \/ i = p THEN RSub(RMul(c, Mop), RMul(s, Moq))
                ELSE IF j = q \/ i = q THEN RAdd(RMul(s, Mop), RMul(c, Moq))
                ELSE M[k]
    IN  [k \in 0 .. n * n - 1 |-> entry(k)]

RECURSIVE SortByMagnitude(_, _, _, _)
\* the exchange sort of the eigenvalues from position (i, j) on: descending |e|
SortByMagnitude(e, n, i, j) ==
    IF i >= n - 1 THEN e
    ELSE IF j >= n THEN SortByMagnitude(e, n, i + 1, i + 2)
    ELSE IF RGt(RAbs(e[j]), RAbs(e[i]))
    THEN SortByMagnitude([e EXCEPT ![i] = e[j], ![j] = e[i]], n, i, j + 1)
    ELSE SortByMagnitude(e, n, i, j + 1)

RECURSIVE SortDescending(_, _, _, _)
\* the exchange sort of the second copy of the header: descending e
SortDescending(e, n, i, j) ==
    IF i >= n - 1 THEN e
    ELSE IF j >= n THEN SortDescending(e, n, i + 1, i + 2)
    ELSE IF RGt(e[j], e[i])
    THEN SortDescending([e EXCEPT ![i] = e[j], ![j] = e[i]], n, i, j + 1)
    ELSE SortDescending(e, n, i, j + 1)

RECURSIVE JacobiLoop(_, _, _, _, _)
\* the loop from iteration iter on: the code returned, the eigenvalues
\* written when it is GR_SUCCESS, the rotations done and the matrix left
JacobiLoop(M, n, jacobi, tol, iter) ==
    IF iter >= GR_JACOBI_MAX_ITER
    THEN [err |-> GR_ERROR_NUMERICAL_INSTABILITY,
          eigenvalues |-> [i \in 0 .. n - 1 |-> Zero],
          iter |-> iter, M |-> M]
    ELSE IF OffDiagBelowTol(M, n, tol)
    THEN [err |-> GR_SUCCESS,
          eigenvalues |->
              IF jacobi = "abs"
              THEN SortByMagnitude([i \in 0 .. n - 1 |-> M[i * n + i]], n, 0, 1)
              ELSE SortDescending([i \in 0 .. n - 1 |-> M[i * n + i]], n, 0, 1),
          iter |-> iter, M |-> M]
    \* the second copy of the header leaves the loop when the largest
    \* off-diagonal entry is below the tolerance
    ELSE IF jacobi = "signed" /\ MaxOffDiagBelowTol(M, n, tol)
    THEN [err |-> GR_ERROR_NUMERICAL_INSTABILITY,
          eigenvalues |-> [i \in 0 .. n - 1 |-> Zero],
          iter |-> iter, M |-> M]
    ELSE LET pq == gr_jacobi_find_max_off_diag(M, n)
         IN  JacobiLoop(JacobiRotate(M, n, pq[1], pq[2]), n, jacobi, tol,
                        iter + 1)

\* gr_eigenvalues_jacobi on a matrix counted in ones
gr_eigenvalues_jacobi(M, n, jacobi) ==
    JacobiLoop(M, n, jacobi, GR_JACOBI_TOL, 0)

\* A direct call of gr_eigenvalues_jacobi on a copy of a matrix counted in
\* units of 1e-13.  obs.steps is the number of rotations done, obs.calls
\* the matrix given and the matrix left, obs.out the eigenvalues written.
EigenvaluesJacobi(M, n, jacobi) ==
    /\ ~ub
    /\ op' = "eigenvalues_jacobi"
    /\ UNCHANGED <<ctx, space, jac, hess, map, metric, surface, dl, ub>>
    /\ \E r \in {JacobiLoop(M, n, jacobi, GR_JACOBI_TOL_E13, 0)} :
          /\ ret' = r.err
          /\ obs' = [ObsNone EXCEPT
                       !.steps = r.iter,
                       !.out = IF r.err = GR_SUCCESS
                               THEN Arr(r.eigenvalues) ELSE NULL,
                       !.flag = n,
                       !.calls = <<M, r.M>>]

(***************************************************************************)
(* Eigenvalue cache and the queries that fill it.                          *)
(***************************************************************************)
\* the code and the object after the cache has been filled if it was not
\* valid; allocOk is the outcome of the allocation of the matrix copy
EigenCache(h, allocOk) ==
    IF h.eigen_valid = 1 THEN [err |-> GR_SUCCESS, hess |-> h]
    ELSE IF ~allocOk THEN [err |-> GR_ERROR_OUT_OF_MEMORY, hess |-> h]
    ELSE CHOOSE res \in
            {IF r.err = GR_SUCCESS
             THEN [err |-> GR_SUCCESS,
                   hess |-> [h EXCEPT !.eigenvalues = r.eigenvalues,
                                      !.eigen_valid = 1]]
             ELSE [err |-> r.err, hess |-> h] :
                r \in {gr_eigenvalues_jacobi(h.data, h.num_dims, h.jacobi)}} : TRUE

\* what implementation B records in the context when the cache fill fails
EigenError(c, impl, err) ==
    IF err = GR_SUCCESS \/ impl = "A" THEN c
    ELSE gr_set_error(c, err,
            IF err = GR_ERROR_OUT_OF_MEMORY
            THEN "Failed to allocate matrix copy for eigenvalues"
            ELSE "Eigenvalue computation failed")

\* max |e| / min |e| over the eigenvalues with |e| > 1e-15; 0 / 1e300 when
\* there is none
gr_hessian_compute_condition(e, n) ==
    LET mags == {RAbs(e[i]) : i \in 0 .. n - 1}
        nonz == {m \in mags : ~RTiny(m)}
        max_abs == CHOOSE m \in mags : \A o \in mags : RGe(m, o)
        min_abs == CHOOSE m \in nonz : \A o \in nonz : RLe(m, o)
    IN  IF nonz = {} THEN Zero ELSE RDiv(max_abs, min_abs)

\* gr_hessian_compute_condition of the second copy of the header: the
\* minimum starts at |e[0]| and is lowered by the magnitudes above 1e-15;
\* INFINITY when it ends below 1e-15
gr_hessian_compute_condition_inf(e, n) ==
    LET mags == {RAbs(e[i]) : i \in 0 .. n - 1}
        lower == {m \in mags : ~RTiny(m) /\ RLt(m, RAbs(e[0]))}
        max_abs == CHOOSE m \in mags : \A o \in mags : RGe(m, o)
        min_abs == IF lower = {} THEN RAbs(e[0])
                   ELSE CHOOSE m \in lower : \A o \in lower : RLe(m, o)
    IN  IF n = 0 THEN Zero
        ELSE IF RTiny(min_abs) THEN GR_INFINITY
        ELSE RDiv(max_abs, min_abs)

\* the condition number of a Hessian whose cache is valid: the first
\* implementation computes it in place, the second calls the header
HessianCondition(h) ==
    IF h.impl = "B" /\ h.jacobi = "signed"
    THEN gr_hessian_compute_condition_inf(h.eigenvalues, h.num_dims)
    ELSE gr_hessian_compute_condition(h.eigenvalues, h.num_dims)

\* gr_hessian_eigenvalues; hasOut tells whether an output array was given,
\* num_eigenvalues is its length
HessianEigenvalues(hasOut, num_eigenvalues, allocOk) ==
    LET n == hess.num_dims
        count == IF num_eigenvalues < n THEN num_eigenvalues ELSE n
    IN
    /\ ~ub
    /\ UNCHANGED dl
    /\ UNCHANGED surface
    /\ hess # NULL
    /\ op' = "hessian_eigenvalues"
    /\ UNCHANGED <<space, jac, map, metric, ub>>
    /\ IF ~hasOut
       THEN /\ ret' = GR_ERROR_NULL_POINTER
            /\ UNCHANGED <<ctx, hess, obs>>
       ELSE IF hess.valid = 0
       THEN /\ ret' = GR_ERROR_NOT_INITIALIZED
            /\ UNCHANGED <<ctx, hess, obs>>
       ELSE IF count < 1
       THEN /\ ret' = GR_ERROR_INVALID_ARGUMENT
            /\ UNCHANGED <<ctx, hess, obs>>
       ELSE \E r \in {EigenCache(hess, allocOk)} :
            /\ hess' = r.hess
            /\ ctx' = EigenError(ctx, hess.impl, r.err)
            /\ ret' = r.err
            /\ obs' = IF r.err = GR_SUCCESS
                      THEN [ObsNone EXCEPT !.out =
                              Arr([i \in 0 .. count - 1 |-> r.hess.eigenvalues[i]])]
                      ELSE obs

\* gr_hessian_condition_number returns a double: ret is the code recorded
\* in the context, GR_SUCCESS when none was
HessianConditionNumber(allocOk) ==
    /\ ~ub
    /\ UNCHANGED dl
    /\ UNCHANGED surface
    /\ hess # NULL
    /\ op' = "hessian_condition_number"
    /\ UNCHANGED <<space, jac, map, metric, ub>>
    /\ \E r \in {IF hess.valid = 0
                  THEN [err |-> GR_ERROR_NOT_INITIALIZED, hess |-> hess]
                  ELSE EigenCache(hess, allocOk)} :
        /\ hess' = r.hess
        /\ ctx' = IF hess.valid = 0 THEN ctx ELSE EigenError(ctx, hess.impl, r.err)
        /\ ret' = IF hess.valid = 0 \/ hess.impl = "A" THEN GR_SUCCESS ELSE r.err
        /\ obs' = [ObsNone EXCEPT !.value =
                      IF r.err = GR_SUCCESS
                      THEN HessianCondition(r.hess)
                      ELSE Zero]

(***************************************************************************)
(* Fragility map (internal/fragility.h, fragility.c).                      *)
(***************************************************************************)
GR_FRAGILITY_CONFIG_DEFAULT ==
    [weight_gradient |-> Rat(1, 4),
     weight_curvature |-> Rat(3, 10),
     weight_conditioning |-> Rat(1, 4),
     weight_constraint |-> Rat(1, 5),
     gradient_scale |-> One,
     curvature_scale |-> R(10),
     condition_threshold |-> R(100),
     constraint_threshold |-> Rat(1, 20),
     fragility_threshold |-> Rat(1, 2),
     store_all_points |-> 0]

gr_fragility_map_new ==
    [config |-> GR_FRAGILITY_CONFIG_DEFAULT,
     points |-> <<>>,
     grid_scores |-> NULL,
     grid_computed |-> 0,
     max_fragility |-> Zero,
     mean_fragility |-> Zero,
     fragile_fraction |-> Zero]

\* 2 / (1 + exp(-x)) - 1 for x >= 0, which is tanh(x / 2): rounded down to a
\* multiple of 1/8 (the thresholds are 2 atanh(k/8) rounded up), and exactly
\* 1 from x = 37 on, where exp(-x) is below half an ulp of 1
Sigmoid(x) ==
    IF RGe(x, R(37)) THEN One
    ELSE IF RGe(x, Rat(271, 100)) THEN Rat(7, 8)
    ELSE IF RGe(x, Rat(195, 100)) THEN Rat(6, 8)
    ELSE IF RGe(x, Rat(147, 100)) THEN Rat(5, 8)
    ELSE IF RGe(x, Rat(110, 100)) THEN Rat(4, 8)
    ELSE IF RGe(x, Rat(79, 100)) THEN Rat(3, 8)
    ELSE IF RGe(x, Rat(52, 100)) THEN Rat(2, 8)
    ELSE IF RGe(x, Rat(26, 100)) THEN Rat(1, 8)
    ELSE Zero

RECURSIVE Log10(_)
\* log10 of x >= 1, rounded down to a multiple of 1/4 (the thresholds are
\* the powers 10^(k/4) rounded up)
Log10(x) ==
    IF RGe(x, R(10)) THEN RAdd(One, Log10(RDiv(x, R(10))))
    ELSE IF RGe(x, Rat(5624, 1000)) THEN Rat(3, 4)
    ELSE IF RGe(x, Rat(3163, 1000)) THEN Rat(1, 2)
    ELSE IF RGe(x, Rat(1779, 1000)) THEN Rat(1, 4)
    ELSE Zero

gr_fragility_from_gradient(gradient_norm, scale) ==
    IF RLe(scale, Zero) THEN Zero ELSE Sigmoid(RDiv(gradient_norm, scale))

gr_fragility_from_curvature(frobenius_norm, scale) ==
    IF RLe(scale, Zero) THEN Zero ELSE Sigmoid(RDiv(frobenius_norm, scale))

gr_fragility_from_conditioning(condition_number, threshold) ==
    IF RLe(threshold, One) \/ RLe(condition_number, One) THEN Zero
    ELSE LET log_cond == Log10(condition_number)
             log_thresh == Log10(threshold)
         IN  IF RLe(log_cond, Zero) THEN Zero
             ELSE IF RGe(log_cond, RMul(Two, log_thresh)) THEN One
             ELSE RDiv(log_cond, RMul(Two, log_thresh))

gr_fragility_combine(gradient_component, curvature_component,
                     conditioning_component, constraint_component, config) ==
    RAdd(RAdd(RAdd(RMul(config.weight_gradient, gradient_component),
                   RMul(config.weight_curvature, curvature_component)),
              RMul(config.weight_conditioning, conditioning_component)),
         RMul(config.weight_constraint, constraint_component))

RECURSIVE SumOfSquares(_, _)
\* the sum of the squares of a[0 .. k-1]
SumOfSquares(a, k) ==
    IF k = 0 THEN Zero ELSE RAdd(SumOfSquares(a, k - 1), RMul(a[k - 1], a[k - 1]))

gr_jacobian_norm(j) ==
    IF j.valid = 0 THEN Zero ELSE Sqrt(SumOfSquares(j.partials, j.num_dims))

gr_hessian_frobenius_norm(h) ==
    IF h.valid = 0 THEN Zero ELSE Sqrt(SumOfSquares(h.data, h.num_dims * h.num_dims))

\* gr_hessian_condition_number of a computed Hessian (the allocation of
\* the matrix copy succeeding)
gr_hessian_condition_number(h) ==
    CHOOSE value \in
        {IF eig.err = GR_SUCCESS
         THEN gr_hessian_compute_condition(eig.hess.eigenvalues, h.num_dims)
         ELSE Zero :
            eig \in {EigenCache(h, TRUE)}} : TRUE

\* the fragile point made of the three metrics of a grid point
ScoredPoint(config, coords, gradient_norm, frobenius, condition) ==
    [fragility_score |->
        gr_fragility_combine(
            gr_fragility_from_gradient(gradient_norm, config.gradient_scale),
            gr_fragility_from_curvature(frobenius, config.curvature_scale),
            gr_fragility_from_conditioning(condition, config.condition_threshold),
            Zero, config),
     curvature |-> frobenius,
     gradient_norm |-> gradient_norm,
     near_constraint |-> 0,
     coordinates |-> coords]

\* the body of the loop of gr_fragility_map_compute for the grid point at
\* coords, once both computes have succeeded: j and h are the temporary
\* Jacobian and Hessian after their computes, then come the three metrics
\* (none of which depends on the order of the eigenvalues)
PointFragility(c, s, config, impl, coords) ==
    LET n == s.num_dims
        fresh == gr_hessian_new(n, impl, "abs")
    IN  CHOOSE p \in UNION
            {{ScoredPoint(config, coords, gradient_norm, frobenius, condition) :
                gradient_norm \in {gr_jacobian_norm(j) :
                    j \in {gr_jacobian_compute(gr_jacobian_new(n), c, s, coords, TRUE)}},
                frobenius \in {gr_hessian_frobenius_norm(h)},
                condition \in {gr_hessian_condition_number(h)}} :
             h \in {IF impl = "A"
                    THEN [fresh EXCEPT !.data = HessianDataA(c, s, n, coords),
                                       !.valid = 1]
                    ELSE HessianMarkComputed(fresh,
                             HessianDataB(c, s, fresh.data, n, coords))}} : TRUE

RECURSIVE FragilityLoop(_, _, _, _, _, _, _)
\* the map, the running sum and the count of fragile points once the loop
\* has handled the flat indices below flat; a compute fails at the indices
\* of skip, and those are passed over; gr_fragility_map_add_point fails at
\* the indices of lost, and the loop goes on without the point
FragilityLoop(m, c, s, impl, skip, lost, flat) ==
    IF flat = 0 THEN [map |-> m, sum |-> Zero, num_fragile |-> 0]
    ELSE IF flat - 1 \in skip \/ flat - 1 >= BufLen(m.grid_scores)
    THEN FragilityLoop(m, c, s, impl, skip, lost, flat - 1)
    ELSE CHOOSE after \in
            {[map |-> [before.map EXCEPT
                  !.grid_scores = Arr([@.at EXCEPT ![flat - 1] = p.fragility_score]),
                  !.max_fragility = IF RGt(p.fragility_score, @)
                                    THEN p.fragility_score ELSE @,
                  !.points = IF /\ RGe(p.fragility_score,
                                        m.config.fragility_threshold)
                                /\ flat - 1 \notin lost
                             THEN Append(@, p) ELSE @],
              sum |-> RAdd(before.sum, p.fragility_score),
              num_fragile |-> before.num_fragile +
                  (IF RGe(p.fragility_score, m.config.fragility_threshold)
                   THEN 1 ELSE 0)] :
                before \in {FragilityLoop(m, c, s, impl, skip, lost, flat - 1)},
                p \in {PointFragility(c, s, m.config, impl,
                           gr_state_space_get_coordinates(s, flat - 1))}} : TRUE

FragilityMapNew(allocOk) ==
    /\ ~ub
    /\ UNCHANGED dl
    /\ UNCHANGED surface
    /\ map = NULL
    /\ op' = "fragility_map_new"
    /\ UNCHANGED <<space, jac, hess, metric, ub, obs>>
    /\ IF ~allocOk
       THEN /\ ctx' = gr_set_error(ctx, GR_ERROR_OUT_OF_MEMORY,
                                   "Failed to allocate fragility map")
            /\ ret' = GR_ERROR_OUT_OF_MEMORY
            /\ map' = map
       ELSE /\ ctx' = ctx
            /\ ret' = GR_SUCCESS
            /\ map' = gr_fragility_map_new

\* gr_fragility_map_set_config returns nothing and records no error
FragilitySetConfig(config) ==
    /\ ~ub
    /\ UNCHANGED dl
    /\ UNCHANGED surface
    /\ map # NULL
    /\ op' = "fragility_map_set_config"
    /\ ret' = GR_SUCCESS
    /\ UNCHANGED <<ctx, space, jac, hess, metric, ub, obs>>
    /\ IF config = NULL THEN map' = map
       ELSE map' = [map EXCEPT !.config = config, !.grid_computed = 0]

\* gr_fragility_map_compute with the Hessian of implementation impl; gridOk
\* and structsOk are the outcomes of the allocation of the score grid and
\* of the temporary Jacobian and Hessian, skip the flat indices at which a
\* compute fails for lack of memory, lost those at which the fragile point
\* cannot be stored; obs.flag tells whether an allocation has failed during
\* the call
FragilityMapCompute(impl, gridOk, structsOk, skip, lost) ==
    LET total == space.total_points
        grid == IF map.grid_scores = NULL
                THEN Arr([flat \in 0 .. total - 1 |-> Zero])
                ELSE map.grid_scores
        reset == [map EXCEPT !.grid_scores = grid,
                             !.max_fragility = Zero,
                             !.points = <<>>]
    IN
    /\ ~ub
    /\ UNCHANGED dl
    /\ UNCHANGED surface
    /\ map # NULL
    /\ op' = "fragility_map_compute"
    /\ UNCHANGED <<space, jac, hess, metric>>
    /\ IF space.prices_valid = 0
       THEN /\ ctx' = gr_set_error(ctx, GR_ERROR_NOT_INITIALIZED,
                                   "State space prices not computed")
            /\ ret' = GR_ERROR_NOT_INITIALIZED
            /\ obs' = ObsNone
            /\ UNCHANGED <<map, ub>>
       ELSE IF map.grid_scores = NULL /\ ~gridOk
       THEN /\ ctx' = gr_set_error(ctx, GR_ERROR_OUT_OF_MEMORY,
                                   "Failed to allocate fragility grid")
            /\ ret' = GR_ERROR_OUT_OF_MEMORY
            /\ obs' = [ObsNone EXCEPT !.flag = 1]
            /\ UNCHANGED <<map, ub>>
       ELSE IF ~structsOk
       THEN /\ ctx' = gr_set_error(ctx, GR_ERROR_OUT_OF_MEMORY,
                                   "Failed to allocate analysis structures")
            /\ ret' = GR_ERROR_OUT_OF_MEMORY
            /\ obs' = [ObsNone EXCEPT !.flag = 1]
            /\ map' = reset
            /\ ub' = ub
       ELSE /\ ctx' = ctx
            /\ ret' = GR_SUCCESS
            /\ (\E done \in {FragilityLoop(reset, ctx, space, impl, skip, lost,
                                             total)} :
                  /\ map' = [done.map EXCEPT
                        !.mean_fragility =
                            IF total > 0 THEN RDiv(done.sum, R(total)) ELSE Zero,
                        !.fragile_fraction =
                            IF total > 0 THEN Rat(done.num_fragile, total) ELSE Zero,
                        !.grid_computed = 1]
                  /\ obs' = [ObsNone EXCEPT !.flag =
                        IF \E at \in 0 .. BufLen(grid) - 1 :
                              /\ at < total
                              /\ \/ at \in skip
                                 \/ /\ at \in lost
                                    /\ RGe(done.map.grid_scores.at[at],
                                           map.config.fragility_threshold)
                        THEN 1 ELSE 0])
            \* a store at an index the score grid does not have
            /\ ub' = \E at \in 0 .. total - 1 :
                        at \notin skip /\ at >= BufLen(grid)

\* the index of the grid value of the dimension nearest to val, the first
\* one of those at the same distance
NearestInDim(dim, val) ==
    CHOOSE best \in 0 .. dim.num_points - 1 :
        \A i \in 0 .. dim.num_points - 1 :
            \E d_best \in {RAbs(RSub(dim.grid.at[best], val))},
               d_i \in {RAbs(RSub(dim.grid.at[i], val))} :
                IF i < best THEN RGt(d_i, d_best) ELSE RGe(d_i, d_best)

gr_state_space_nearest_index(s, coords) ==
    gr_state_space_flat_index(s,
        [d \in 0 .. s.num_dims - 1 |-> NearestInDim(s.dims[d], coords[d])])

\* gr_dimension_nearest_index, were it to give the upper end of the bracket
\* to a value halfway between two grid values
gr_dimension_nearest_index_upper(dim, value) ==
    IF RLe(value, dim.min_value) THEN 0
    ELSE IF RGe(value, dim.max_value) THEN dim.num_points - 1
    ELSE LET hits == {i \in 0 .. dim.num_points - 2 :
                         /\ RGe(value, dim.grid.at[i])
                         /\ RLe(value, dim.grid.at[i + 1])}
             i == CHOOSE h \in hits : \A o \in hits : h <= o
         IN  IF hits = {} THEN dim.num_points - 1
             ELSE IF RLt(RSub(value, dim.grid.at[i]),
                         RSub(dim.grid.at[i + 1], value))
             THEN i ELSE i + 1

\* gr_dimension_nearest_index of the first copy of state_space.h: the
\* closer end of the first bracket that holds the value
gr_dimension_nearest_index(dim, value) ==
    IF RLe(value, dim.min_value) THEN 0
    ELSE IF RGe(value, dim.max_value) THEN dim.num_points - 1
    ELSE LET hits == {i \in 0 .. dim.num_points - 2 :
                         /\ RGe(value, dim.grid.at[i])
                         /\ RLe(value, dim.grid.at[i + 1])}
             i == CHOOSE h \in hits : \A o \in hits : h <= o
         IN  IF hits = {} THEN dim.num_points - 1
             ELSE IF RLe(RSub(value, dim.grid.at[i]),
                         RSub(dim.grid.at[i + 1], value))
             THEN i ELSE i + 1

\* A direct call of gr_state_space_nearest_index; copy tells which copy of
\* state_space.h is compiled.  obs.out is the point given, obs.steps the
\* index found in each dimension, obs.flag the flat index returned.
NearestIndex(coordinates, copy) ==
    /\ ~ub
    /\ space.num_dims >= 1
    /\ op' = "nearest_index"
    /\ ret' = GR_SUCCESS
    /\ UNCHANGED <<ctx, space, jac, hess, map, metric, surface, dl, ub>>
    /\ \E indices \in {[d \in 0 .. space.num_dims - 1 |->
                          IF copy = "bracket"
                          THEN gr_dimension_nearest_index(space.dims[d],
                                                          coordinates.at[d])
                          ELSE NearestInDim(space.dims[d], coordinates.at[d])]} :
          obs' = [ObsNone EXCEPT
                    !.out = coordinates,
                    !.steps = indices,
                    !.flag = gr_state_space_flat_index(space, indices)]

\* gr_fragility_at_point returns a double, kept in obs.value, and records no
\* error
FragilityAt(coordinates) ==
    /\ ~ub
    /\ UNCHANGED dl
    /\ map # NULL
    /\ op' = "fragility_at_point"
    /\ ret' = GR_SUCCESS
    /\ UNCHANGED <<ctx, space, jac, hess, map, metric, surface>>
    /\ IF coordinates = NULL \/ map.grid_computed = 0 \/ map.grid_scores = NULL
       THEN obs' = ObsNone /\ ub' = ub
       ELSE \E flat \in {gr_state_space_nearest_index(space, coordinates.at)} :
              IF flat >= space.total_points
              THEN obs' = ObsNone /\ ub' = ub
              ELSE IF flat < BufLen(map.grid_scores)
              THEN /\ obs' = [ObsNone EXCEPT !.value = map.grid_scores.at[flat]]
                   /\ ub' = ub
              \* a load from an index the score grid does not have
              ELSE obs' = ObsNone /\ ub' = TRUE

\* gr_fragility_map_get_num_fragile_regions returns num_points, kept in
\* obs.flag
FragilityNumRegions ==
    /\ ~ub
    /\ map # NULL
    /\ op' = "fragility_map_get_num_fragile_regions"
    /\ ret' = GR_SUCCESS
    /\ UNCHANGED <<ctx, space, jac, hess, map, metric, surface, dl, ub>>
    /\ obs' = [ObsNone EXCEPT !.flag = Len(map.points)]

\* gr_fragility_map_get_statistics writes max, mean and fragile fraction to
\* the three out parameters, kept in obs.out
FragilityStatistics ==
    /\ ~ub
    /\ map # NULL
    /\ op' = "fragility_map_get_statistics"
    /\ ret' = GR_SUCCESS
    /\ UNCHANGED <<ctx, space, jac, hess, map, metric, surface, dl, ub>>
    /\ obs' = [ObsNone EXCEPT
                 !.out = Arr(0 :> map.max_fragility @@
                             1 :> map.mean_fragility @@
                             2 :> map.fragile_fraction)]

(***************************************************************************)
(* Transport metric (internal/transport.h, metric.c).  samples holds the   *)
(* slots of the sample array that have been written; the others are as    *)
(* calloc left them.                                                        *)
(***************************************************************************)
GR_TRANSPORT_MAX_SAMPLES == 1024

\* the n x n tensor gr_metric_set_identity writes
gr_metric_set_identity(n) ==
    [k \in 0 .. n * n - 1 |-> IF k \div n = k % n THEN One ELSE Zero]

gr_transport_metric_new ==
    [num_dims |-> 0,
     num_samples |-> 0,
     samples |-> <<>>,
     default_tensor |-> NULL,
     use_identity |-> 1,
     interpolation_radius |-> Zero]

\* the code, the message and the metric after gr_transport_metric_set_dims
\* on a metric m; allocOk is the outcome of the allocation of the default
\* tensor
gr_transport_metric_set_dims(m, num_dims, allocOk) ==
    IF num_dims < 1 \/ num_dims > GR_MAX_DIMENSIONS
    THEN [err |-> GR_ERROR_INVALID_ARGUMENT,
          msg |-> "Invalid number of dimensions", metric |-> m]
    ELSE IF m.num_samples > 0
    THEN [err |-> GR_ERROR_INVALID_ARGUMENT,
          msg |-> "Cannot change dimensions after adding samples", metric |-> m]
    ELSE IF ~allocOk
    THEN [err |-> GR_ERROR_OUT_OF_MEMORY,
          msg |-> "Failed to allocate default tensor",
          metric |-> [m EXCEPT !.num_dims = num_dims, !.default_tensor = NULL]]
    ELSE [err |-> GR_SUCCESS,
          msg |-> "",
          metric |-> [m EXCEPT !.num_dims = num_dims,
                               !.default_tensor = Arr(gr_metric_set_identity(num_dims))]]

\* the slot after gr_metric_sample_init; coordsOk and tensorOk are the
\* outcomes of its two allocations
gr_metric_sample_init(num_dims, coordinates, tensor, coordsOk, tensorOk) ==
    IF ~coordsOk \/ ~tensorOk
    THEN [num_dims |-> num_dims, coordinates |-> NULL, tensor |-> NULL]
    ELSE [num_dims |-> num_dims,
          coordinates |-> Arr([i \in 0 .. num_dims - 1 |-> coordinates.at[i]]),
          tensor |-> Arr([i \in 0 .. num_dims * num_dims - 1 |-> tensor.at[i]])]

MetricNew(allocOk) ==
    /\ ~ub
    /\ UNCHANGED dl
    /\ UNCHANGED surface
    /\ metric = NULL
    /\ surface = NULL
    /\ op' = "transport_metric_new"
    /\ UNCHANGED <<space, jac, hess, map, ub, obs>>
    /\ IF ~allocOk
       THEN /\ ctx' = gr_set_error(ctx, GR_ERROR_OUT_OF_MEMORY,
                                   "Failed to allocate transport metric")
            /\ ret' = GR_ERROR_OUT_OF_MEMORY
            /\ metric' = metric
       ELSE /\ ctx' = ctx
            /\ ret' = GR_SUCCESS
            /\ metric' = gr_transport_metric_new

MetricSetDims(num_dims, allocOk) ==
    /\ ~ub
    /\ UNCHANGED dl
    /\ UNCHANGED surface
    /\ metric # NULL
    /\ op' = "transport_metric_set_dims"
    /\ UNCHANGED <<space, jac, hess, map, ub, obs>>
    /\ \E r \in {gr_transport_metric_set_dims(metric, num_dims, allocOk)} :
        /\ metric' = r.metric
        /\ ret' = r.err
        /\ ctx' = IF r.err = GR_SUCCESS THEN ctx ELSE gr_set_error(ctx, r.err, r.msg)

\* the loop of gr_transport_metric_set_default stores through the default
\* tensor, which is a null pointer after a set_dims that ran out of memory
MetricSetDefault(tensor) ==
    /\ ~ub
    /\ UNCHANGED dl
    /\ UNCHANGED surface
    /\ metric # NULL
    /\ op' = "transport_metric_set_default"
    /\ UNCHANGED <<space, jac, hess, map, obs>>
    /\ IF tensor = NULL
       THEN /\ ret' = GR_ERROR_NULL_POINTER
            /\ UNCHANGED <<ctx, metric, ub>>
       ELSE IF metric.num_dims = 0
       THEN /\ ctx' = gr_set_error(ctx, GR_ERROR_NOT_INITIALIZED,
                                   "Set dimensions first")
            /\ ret' = GR_ERROR_NOT_INITIALIZED
            /\ UNCHANGED <<metric, ub>>
       ELSE IF metric.default_tensor = NULL
       THEN /\ ub' = TRUE
            /\ ret' = GR_SUCCESS
            /\ UNCHANGED <<ctx, metric>>
       ELSE /\ metric' = [metric EXCEPT
                            !.default_tensor =
                                Arr([i \in 0 .. metric.num_dims * metric.num_dims - 1
                                        |-> tensor.at[i]]),
                            !.use_identity = 0]
            /\ ret' = GR_SUCCESS
            /\ UNCHANGED <<ctx, ub>>

\* gr_transport_metric_set_radius returns nothing
MetricSetRadius(radius) ==
    /\ ~ub
    /\ UNCHANGED dl
    /\ UNCHANGED surface
    /\ metric # NULL
    /\ op' = "transport_metric_set_radius"
    /\ ret' = GR_SUCCESS
    /\ UNCHANGED <<ctx, space, jac, hess, map, ub, obs>>
    /\ metric' = [metric EXCEPT !.interpolation_radius =
                                    IF RGt(radius, Zero) THEN radius ELSE Zero]

\* gr_transport_metric_set; dimsOk is the outcome of the allocation inside
\* gr_transport_metric_set_dims, which is called when no dimension is set
MetricSet(coordinates, num_dims, tensor, dimsOk, coordsOk, tensorOk) ==
    /\ ~ub
    /\ UNCHANGED dl
    /\ UNCHANGED surface
    /\ metric # NULL
    /\ op' = "transport_metric_set"
    /\ UNCHANGED <<space, jac, hess, map, ub, obs>>
    /\ IF coordinates = NULL \/ tensor = NULL
       THEN /\ ret' = GR_ERROR_NULL_POINTER
            /\ UNCHANGED <<ctx, metric>>
       ELSE \E r \in {IF metric.num_dims = 0
                      THEN gr_transport_metric_set_dims(metric, num_dims, dimsOk)
                      ELSE [err |-> GR_SUCCESS, msg |-> "", metric |-> metric]} :
            IF r.err # GR_SUCCESS
            THEN /\ metric' = r.metric
                 /\ ctx' = gr_set_error(ctx, r.err, r.msg)
                 /\ ret' = r.err
            ELSE IF num_dims # r.metric.num_dims
            THEN /\ metric' = r.metric
                 /\ ctx' = gr_set_error(ctx, GR_ERROR_DIMENSION_MISMATCH,
                                        "Dimension mismatch in metric sample")
                 /\ ret' = GR_ERROR_DIMENSION_MISMATCH
            ELSE IF r.metric.num_samples >= GR_TRANSPORT_MAX_SAMPLES
            THEN /\ metric' = r.metric
                 /\ ctx' = gr_set_error(ctx, GR_ERROR_INVALID_ARGUMENT,
                                        "Maximum metric samples exceeded")
                 /\ ret' = GR_ERROR_INVALID_ARGUMENT
            ELSE /\ metric' =
                        [r.metric EXCEPT
                            !.samples = Put(@, r.metric.num_samples,
                                            gr_metric_sample_init(num_dims, coordinates,
                                                tensor, coordsOk, tensorOk)),
                            !.num_samples = IF coordsOk /\ tensorOk THEN @ + 1 ELSE @]
                 /\ IF coordsOk /\ tensorOk
                    THEN ctx' = ctx /\ ret' = GR_SUCCESS
                    ELSE /\ ctx' = gr_set_error(ctx, GR_ERROR_OUT_OF_MEMORY,
                                                "Failed to add metric sample")
                         /\ ret' = GR_ERROR_OUT_OF_MEMORY

(***************************************************************************)
(* Constraint surface (internal/constraints.h, constraints.c).  The        *)
(* sources hold internal/constraints.h in two versions, and hdr tells      *)
(* which one the surface is compiled with: "tol" (each constraint carries  *)
(* a tolerance, set to 1e-9) or "fix" (the tolerance is the literal 1e-10  *)
(* and there is no such field).  The doubles of this section               *)
(* (coordinates, thresholds, tolerances, distances) are counted in units   *)
(* of 1e-9, so that 1e-9 and 1e-10 are the values 1 and 1/10; the          *)
(* operations the code performs on them are comparisons, differences and   *)
(* fabs, which do not depend on the unit.  1e300 and INFINITY exceed every *)
(* other value; they are the pairs <<1, 0>> and <<2, 0>>.                  *)
(***************************************************************************)
GR_MAX_CONSTRAINTS == 64

\* a slot of the constraint array as calloc left it
ZeroConstraint ==
    [type |-> "GR_CONSTRAINT_LIQUIDITY",
     name |-> "",
     active |-> 0,
     dimension |-> 0,
     direction |-> "GR_CONSTRAINT_UPPER",
     threshold |-> Zero,
     tolerance |-> Zero,
     hardness |-> "GR_CONSTRAINT_HARD",
     penalty_rate |-> Zero,
     eval_fn |-> NULLS]

gr_constraint_surface_new(hdr) ==
    [hdr |-> hdr,
     num_constraints |-> 0,
     constraints |-> [i \in 0 .. GR_MAX_CONSTRAINTS - 1 |-> ZeroConstraint]]

\* the slot c after gr_constraint_init_threshold; name is NULLS or a string
gr_constraint_init_threshold(hdr, c, type, name, dimension, direction,
                             threshold, hardness) ==
    [c EXCEPT !.type = type,
              !.name = IF name # NULLS THEN name ELSE IF hdr = "tol" THEN "" ELSE @,
              !.active = 1,
              !.dimension = dimension,
              !.direction = direction,
              !.threshold = threshold,
              !.tolerance = IF hdr = "tol" THEN One ELSE @,
              !.hardness = hardness,
              !.penalty_rate = IF hdr = "tol" THEN One ELSE R(10),
              !.eval_fn = NULLS]

\* the constrained quantity (gr_constraint_get_value in the first version)
gr_constraint_evaluate(c, coords, num_dims) ==
    IF c.dimension >= 0 /\ c.dimension < num_dims THEN coords[c.dimension]
    ELSE Zero

gr_constraint_is_violated(hdr, c, coords, num_dims) ==
    LET val == gr_constraint_evaluate(c, coords, num_dims)
    IN  IF c.active = 0 THEN FALSE
        ELSE IF c.direction = "GR_CONSTRAINT_UPPER" THEN RGt(val, c.threshold)
        ELSE IF c.direction = "GR_CONSTRAINT_LOWER" THEN RLt(val, c.threshold)
        ELSE RGt(RAbs(RSub(val, c.threshold)),
                 IF hdr = "tol" THEN c.tolerance ELSE Rat(1, 10))

gr_constraint_signed_distance(hdr, c, coords, num_dims) ==
    LET val == gr_constraint_evaluate(c, coords, num_dims)
    IN  IF hdr = "tol" /\ c.active = 0 THEN GR_INFINITY
        ELSE IF c.direction = "GR_CONSTRAINT_UPPER" THEN RSub(c.threshold, val)
        ELSE IF c.direction = "GR_CONSTRAINT_LOWER" THEN RSub(val, c.threshold)
        ELSE IF hdr = "tol"
        THEN RSub(c.tolerance, RAbs(RSub(val, c.threshold)))
        ELSE RNeg(RAbs(RSub(val, c.threshold)))

RECURSIVE MinDistanceLoop(_, _, _, _)
\* min_dist once the loop has handled the constraints below index i
MinDistanceLoop(s, coords, num_dims, i) ==
    IF i = 0 THEN IF s.hdr = "tol" THEN GR_INFINITY ELSE GR_HUGE
    ELSE CHOOSE after \in
            {IF s.hdr = "fix" /\ s.constraints[i - 1].active = 0 THEN min_dist
             ELSE IF XLt(dist, min_dist) THEN dist
             ELSE min_dist :
                min_dist \in {MinDistanceLoop(s, coords, num_dims, i - 1)},
                dist \in {gr_constraint_signed_distance(
                              s.hdr, s.constraints[i - 1], coords, num_dims)}} : TRUE

gr_constraints_min_distance(s, coords, num_dims) ==
    MinDistanceLoop(s, coords, num_dims, s.num_constraints)

\* the value gr_constraint_check returns
gr_constraint_check(s, coords, num_dims) ==
    IF \E i \in 0 .. s.num_constraints - 1 :
          gr_constraint_is_violated(s.hdr, s.constraints[i], coords, num_dims)
    THEN 1 ELSE 0

\* the name, direction, hardness and penalty rate gr_constraint_add gives a
\* constraint of the type; a penalty of NULL stands for the one
\* gr_constraint_init_threshold has set
ConstraintDefaults(type) ==
    IF type = "GR_CONSTRAINT_LIQUIDITY"
    THEN [name |-> "liquidity", direction |-> "GR_CONSTRAINT_UPPER",
          hardness |-> "GR_CONSTRAINT_SOFT", penalty_rate |-> R(100)]
    ELSE IF type = "GR_CONSTRAINT_POSITION_LIMIT"
    THEN [name |-> "position_limit", direction |-> "GR_CONSTRAINT_UPPER",
          hardness |-> "GR_CONSTRAINT_HARD", penalty_rate |-> NULL]
    ELSE IF type = "GR_CONSTRAINT_MARGIN"
    THEN [name |-> "margin", direction |-> "GR_CONSTRAINT_LOWER",
          hardness |-> "GR_CONSTRAINT_SOFT", penalty_rate |-> R(50)]
    ELSE IF type = "GR_CONSTRAINT_REGULATORY"
    THEN [name |-> "regulatory", direction |-> "GR_CONSTRAINT_UPPER",
          hardness |-> "GR_CONSTRAINT_HARD", penalty_rate |-> NULL]
    ELSE [name |-> "custom", direction |-> "GR_CONSTRAINT_UPPER",
          hardness |-> "GR_CONSTRAINT_SOFT", penalty_rate |-> NULL]

\* the capacity check of the add functions, were it to compare with >
SurfaceIsFullOffByOne(s) == s.num_constraints > GR_MAX_CONSTRAINTS

\* the capacity check of the add functions
SurfaceIsFull(s) == s.num_constraints >= GR_MAX_CONSTRAINTS

\* the surface with the next slot initialised and counted
SurfaceAppend(s, type, name, dimension, direction, threshold, hardness,
              penalty_rate) ==
    [s EXCEPT
        !.constraints[s.num_constraints] =
            [gr_constraint_init_threshold(s.hdr, @, type, name, dimension,
                                          direction, threshold, hardness)
             EXCEPT !.penalty_rate = IF penalty_rate = NULL THEN @
                                     ELSE penalty_rate],
        !.num_constraints = @ + 1]

ConstraintSurfaceNew(hdr, allocOk) ==
    /\ ~ub
    /\ UNCHANGED dl
    /\ surface = NULL
    /\ op' = "constraint_surface_new"
    /\ UNCHANGED <<space, jac, hess, map, metric, ub, obs>>
    /\ IF ~allocOk
       THEN /\ ctx' = gr_set_error(ctx, GR_ERROR_OUT_OF_MEMORY,
                                   "Failed to allocate constraint surface")
            /\ ret' = GR_ERROR_OUT_OF_MEMORY
            /\ surface' = surface
       ELSE /\ ctx' = ctx
            /\ ret' = GR_SUCCESS
            /\ surface' = gr_constraint_surface_new(hdr)

\* gr_constraint_add; name is NULLS or a string
ConstraintAdd(type, name, threshold) ==
    /\ ~ub
    /\ UNCHANGED dl
    /\ surface # NULL
    /\ op' = "constraint_add"
    /\ UNCHANGED <<space, jac, hess, map, metric, ub, obs>>
    /\ IF SurfaceIsFull(surface)
       THEN /\ ctx' = gr_set_error(ctx, GR_ERROR_INVALID_ARGUMENT,
                                   "Maximum constraints exceeded")
            /\ ret' = GR_ERROR_INVALID_ARGUMENT
            /\ surface' = surface
       ELSE /\ ctx' = ctx
            /\ ret' = GR_SUCCESS
            /\ surface' =
                  SurfaceAppend(surface, type,
                      IF name # NULLS THEN name ELSE ConstraintDefaults(type).name,
                      -1, ConstraintDefaults(type).direction, threshold,
                      ConstraintDefaults(type).hardness,
                      ConstraintDefaults(type).penalty_rate)

ConstraintAddFull(type, name, dimension, direction, threshold, hardness,
                  penalty_rate) ==
    /\ ~ub
    /\ UNCHANGED dl
    /\ surface # NULL
    /\ op' = "constraint_add_full"
    /\ UNCHANGED <<space, jac, hess, map, metric, ub, obs>>
    /\ IF SurfaceIsFull(surface)
       THEN /\ ctx' = gr_set_error(ctx, GR_ERROR_INVALID_ARGUMENT,
                                   "Maximum constraints exceeded")
            /\ ret' = GR_ERROR_INVALID_ARGUMENT
            /\ surface' = surface
       ELSE /\ ctx' = ctx
            /\ ret' = GR_SUCCESS
            /\ surface' = SurfaceAppend(surface, type, name, dimension, direction,
                                        threshold, hardness, penalty_rate)

\* gr_constraint_set_active returns nothing and records no error
ConstraintSetActive(index, active) ==
    /\ ~ub
    /\ UNCHANGED dl
    /\ surface # NULL
    /\ op' = "constraint_set_active"
    /\ ret' = GR_SUCCESS
    /\ UNCHANGED <<ctx, space, jac, hess, map, metric, ub, obs>>
    /\ IF index < 0 \/ index >= surface.num_constraints THEN surface' = surface
       ELSE surface' = [surface EXCEPT !.constraints[index].active =
                                           IF active # 0 THEN 1 ELSE 0]

\* gr_constraint_check returns an int, kept in obs.flag; obs.out keeps the
\* point that was asked about
ConstraintCheck(coordinates, num_dims) ==
    /\ ~ub
    /\ UNCHANGED dl
    /\ surface # NULL
    /\ op' = "constraint_check"
    /\ ret' = GR_SUCCESS
    /\ UNCHANGED <<ctx, space, jac, hess, map, metric, surface, ub>>
    /\ obs' = [ObsNone EXCEPT
                 !.out = coordinates,
                 !.flag =
                  IF coordinates = NULL THEN 0
                  ELSE gr_constraint_check(surface, coordinates.at, num_dims)]

\* gr_constraint_distance returns a double, kept in obs.value
ConstraintDistance(coordinates, num_dims) ==
    /\ ~ub
    /\ UNCHANGED dl
    /\ surface # NULL
    /\ op' = "constraint_distance"
    /\ ret' = GR_SUCCESS
    /\ UNCHANGED <<ctx, space, jac, hess, map, metric, surface, ub>>
    /\ obs' = [ObsNone EXCEPT !.value =
                  IF coordinates = NULL THEN GR_INFINITY
                  ELSE gr_constraints_min_distance(surface, coordinates.at,
                                                   num_dims)]

(***************************************************************************)
(* SpecHess: one Hessian over a state space that already has its           *)
(* dimensions (DimA, or DimA and DimB), evaluated at grid nodes.           *)
(***************************************************************************)
MaxCoord == 1

RECURSIVE SpaceOf(_, _)
\* the state space after add_dimension has succeeded on dims[1 .. k]
SpaceOf(dims, k) ==
    IF k = 0 THEN gr_state_space_new
    ELSE LET s == SpaceOf(dims, k - 1)
         IN  AddDimensionCommit(s,
                gr_dimension_build_grid(
                    [CopyDimension(s, dims[k]) EXCEPT !.name = dims[k].name]))

HessSpaces == {SpaceOf(<<DimA>>, 1), SpaceOf(<<DimA, DimB>>, 2)}

\* the evaluation points: the grid nodes (v, ..., v)
PointInputs(n) == {[d \in 0 .. n - 1 |-> R(v)] : v \in 0 .. MaxCoord}

InitHess ==
    /\ ctx = gr_context_new
    /\ space \in HessSpaces
    /\ jac = NULL
    /\ hess = NULL
    /\ map = NULL
    /\ metric = NULL
    /\ surface = NULL
    /\ op = "new"
    /\ ret = GR_SUCCESS
    /\ ub = FALSE
    /\ dl = DlInit
    /\ obs = ObsNone

HMap == MapPrices("cross_term", TRUE)

HNew ==
    \E impl \in {"A", "B"}, jacobi \in {"abs", "signed"} :
        HessianNew(space.num_dims, impl, jacobi, TRUE)

HCompute ==
    /\ hess # NULL
    /\ \E point \in PointInputs(hess.num_dims), bufOk \in BOOLEAN :
          HessianCompute(Arr(point), bufOk)

HDirect ==
    /\ hess # NULL
    /\ \E point \in PointInputs(hess.num_dims),
          bump \in {Zero, Rat(1, 10)}, bufOk \in BOOLEAN :
          HessianComputeDirect("simple_quadratic", Arr(point), bump, bufOk)

HEigen ==
    /\ hess # NULL
    /\ \E allocOk \in BOOLEAN :
          HessianEigenvalues(TRUE, hess.num_dims, allocOk)

HCond == \E allocOk \in BOOLEAN : HessianConditionNumber(allocOk)

HInterp ==
    \E coordinates \in {NULL} \cup {Arr(x) : x \in PointInputs(space.num_dims)} :
        InterpolatePrice(coordinates)

NextHess == HMap \/ HNew \/ HCompute \/ HDirect \/ HEigen \/ HCond \/ HInterp

SpecHess == InitHess /\ [][NextHess]_vars

(***************************************************************************)
(* SpecFrag: one fragility map over the same state spaces, the bump of the *)
(* context set to 0.1 by gr_context_set_bump_size.                         *)
(***************************************************************************)
InitFrag ==
    /\ ctx = [gr_context_new EXCEPT !.bump_size = Rat(1, 10)]
    /\ space \in HessSpaces
    /\ jac = NULL
    /\ hess = NULL
    /\ map = NULL
    /\ metric = NULL
    /\ surface = NULL
    /\ op = "set_bump_size"
    /\ ret = GR_SUCCESS
    /\ ub = FALSE
    /\ dl = DlInit
    /\ obs = ObsNone

\* a configuration with every weight 1
UnitWeights ==
    [GR_FRAGILITY_CONFIG_DEFAULT EXCEPT !.weight_gradient = One,
                                        !.weight_curvature = One,
                                        !.weight_conditioning = One,
                                        !.weight_constraint = One]

ConfigInputs == {UnitWeights, NULL}

FMap == MapPrices("simple_quadratic", TRUE)

FNew == FragilityMapNew(TRUE)

FSetConfig == \E config \in ConfigInputs : FragilitySetConfig(config)

\* every compute of a grid point succeeds; the fragile point of flat index
\* 0 may fail to be stored
FCompute ==
    \E impl \in {"A", "B"}, gridOk \in BOOLEAN, structsOk \in BOOLEAN,
       lost \in {{}, {0}} :
        FragilityMapCompute(impl, gridOk, structsOk, {}, lost)

NextFrag == FMap \/ FNew \/ FSetConfig \/ FCompute

SpecFrag == InitFrag /\ [][NextFrag]_vars

(***************************************************************************)
(* SpecSweep: a fragility map over the grid of DimA, computed again and    *)
(* again under the default weights and under unit weights, while the       *)
(* compute of a grid point may fail for lack of memory.                    *)
(***************************************************************************)
InitSweep ==
    /\ ctx = [gr_context_new EXCEPT !.bump_size = Rat(1, 10)]
    /\ space = SpaceOf(<<DimB>>, 1)
    /\ jac = NULL
    /\ hess = NULL
    /\ map = NULL
    /\ metric = NULL
    /\ surface = NULL
    /\ dl = DlInit
    /\ op = "set_bump_size"
    /\ ret = GR_SUCCESS
    /\ ub = FALSE
    /\ obs = ObsNone

WMap == MapPrices("simple_quadratic", TRUE)

WNew == FragilityMapNew(TRUE)

WSetConfig ==
    \E config \in {GR_FRAGILITY_CONFIG_DEFAULT, UnitWeights} :
        FragilitySetConfig(config)

WCompute ==
    \E impl \in {"A", "B"}, skip \in SUBSET (0 .. space.total_points - 1) :
        FragilityMapCompute(impl, TRUE, TRUE, skip, {})

WAt ==
    \E v \in {Zero, One} : FragilityAt(Arr(0 :> v))

WRegions == FragilityNumRegions

WStatistics == FragilityStatistics

NextSweep ==
    WMap \/ WNew \/ WSetConfig \/ WCompute \/ WAt \/ WRegions \/ WStatistics

SpecSweep == InitSweep /\ [][NextSweep]_vars

(***************************************************************************)
(* SpecErr: the context, the state space, a Jacobian and a transport       *)
(* metric, called with arguments that are rejected as well as with         *)
(* arguments that are accepted.  The metric is new, or holds as many       *)
(* samples as it has room for.                                             *)
(***************************************************************************)
MaxSamples == 2

\* a metric of one dimension whose sample array is full
FullMetric ==
    [gr_transport_metric_set_dims(gr_transport_metric_new, 1, TRUE).metric EXCEPT
        !.num_samples = GR_TRANSPORT_MAX_SAMPLES,
        !.samples = [i \in 0 .. GR_TRANSPORT_MAX_SAMPLES - 1 |->
                        gr_metric_sample_init(1, Arr([d \in 0 .. 0 |-> Zero]),
                            Arr(gr_metric_set_identity(1)), TRUE, TRUE)]]

InitErr ==
    /\ ctx = gr_context_new
    /\ space = gr_state_space_new
    /\ jac = NULL
    /\ hess = NULL
    /\ map = NULL
    /\ metric \in {NULL, FullMetric}
    /\ surface = NULL
    /\ op = "new"
    /\ ret = GR_SUCCESS
    /\ ub = FALSE
    /\ dl = DlInit
    /\ obs = ObsNone

\* the arrays a caller passes for n dimensions, and no array
CoordInputs(n) == {NULL, Arr([d \in 0 .. n - 1 |-> One])}

TensorInputs(n) == {NULL, Arr([k \in 0 .. n * n - 1 |-> Two])}

EAddDim ==
    \E dim \in {DimA, DimFewPoints, NULL} :
        /\ space.num_dims < MaxDims
        /\ AddDimension(dim, TRUE, TRUE)

ESetBump == \E bump \in {Zero, Rat(1, 10)} : SetBumpSize(bump)

ESetThreads == \E threads \in {0, 2} : SetNumThreads(threads)

EJNew == \E n \in {0, 1} : JacobianNew(n, TRUE)

\* the prices are never mapped here: every compute is refused
EJCompute ==
    /\ jac # NULL
    /\ \E point \in {NULL} \cup {Arr(x) : x \in PointInputs(jac.num_dims)} :
          JacobianCompute(point, TRUE)

EMetricNew == MetricNew(TRUE)

\* every allocation inside the metric succeeds
EMetricSetDims == \E num_dims \in {0, 1, 2} : MetricSetDims(num_dims, TRUE)

EMetricSetDefault ==
    /\ metric # NULL
    /\ \E tensor \in TensorInputs(metric.num_dims) : MetricSetDefault(tensor)

EMetricSet ==
    /\ metric # NULL
    /\ \/ metric.num_samples < MaxSamples
       \/ metric.num_samples >= GR_TRANSPORT_MAX_SAMPLES
    /\ \E num_dims \in {1, 2} :
       \E coordinates \in CoordInputs(num_dims), tensor \in TensorInputs(num_dims) :
          MetricSet(coordinates, num_dims, tensor, TRUE, TRUE, TRUE)

NextErr ==
    \/ EAddDim \/ ESetBump \/ ESetThreads
    \/ EJNew \/ EJCompute
    \/ EMetricNew \/ EMetricSetDims \/ EMetricSetDefault \/ EMetricSet

SpecErr == InitErr /\ [][NextErr]_vars

(***************************************************************************)
(* SpecGrow: a fragility map over a state space that starts with DimA and  *)
(* is given DimB at any time, before or after prices are mapped and the    *)
(* map is computed.                                                        *)
(***************************************************************************)
InitGrow ==
    /\ ctx = [gr_context_new EXCEPT !.bump_size = Rat(1, 10)]
    /\ space = SpaceOf(<<DimA>>, 1)
    /\ jac = NULL
    /\ hess = NULL
    /\ map = NULL
    /\ metric = NULL
    /\ surface = NULL
    /\ op = "set_bump_size"
    /\ ret = GR_SUCCESS
    /\ ub = FALSE
    /\ dl = DlInit
    /\ obs = ObsNone

GAddDim ==
    \E dim \in {DimB, DimFewPoints} :
        /\ space.num_dims = 1
        /\ AddDimension(dim, TRUE, TRUE)

GMap == MapPrices("simple_quadratic", TRUE)

GNew == FragilityMapNew(TRUE)

GSetConfig == FragilitySetConfig(UnitWeights)

GCompute ==
    \E impl \in {"A", "B"}, gridOk \in BOOLEAN :
        FragilityMapCompute(impl, gridOk, TRUE, {}, {})

GAt ==
    \E coordinates \in {NULL} \cup {Arr(x) : x \in PointInputs(space.num_dims)} :
        FragilityAt(coordinates)

NextGrow == GAddDim \/ GMap \/ GNew \/ GSetConfig \/ GCompute \/ GAt

SpecGrow == InitGrow /\ [][NextGrow]_vars

(***************************************************************************)
(* SpecLimit: a state space, a constraint surface and a transport metric   *)
(* that each have room for one more element, and the adds that fill them   *)
(* and then go on.                                                         *)
(***************************************************************************)
RECURSIVE SurfaceOf(_, _)
\* the surface after k successful calls of gr_constraint_add
SurfaceOf(hdr, k) ==
    IF k = 0 THEN gr_constraint_surface_new(hdr)
    ELSE SurfaceAppend(SurfaceOf(hdr, k - 1), "GR_CONSTRAINT_CUSTOM", "custom",
                       -1, "GR_CONSTRAINT_UPPER", Zero, "GR_CONSTRAINT_SOFT", NULL)

\* FullMetric before its last sample was set
AlmostFullMetric ==
    [FullMetric EXCEPT
        !.num_samples = GR_TRANSPORT_MAX_SAMPLES - 1,
        !.samples = [i \in 0 .. GR_TRANSPORT_MAX_SAMPLES - 2 |-> FullMetric.samples[i]]]

InitLimit ==
    /\ ctx = gr_context_new
    /\ space = SpaceOf([k \in 1 .. GR_MAX_DIMENSIONS - 1 |-> DimB],
                       GR_MAX_DIMENSIONS - 1)
    /\ jac = NULL
    /\ hess = NULL
    /\ map = NULL
    /\ metric = AlmostFullMetric
    /\ surface \in {SurfaceOf(hdr, GR_MAX_CONSTRAINTS - 1) : hdr \in {"tol", "fix"}}
    /\ op = "new"
    /\ ret = GR_SUCCESS
    /\ ub = FALSE
    /\ dl = DlInit
    /\ obs = ObsNone

LAddDim == \E dim \in {DimB, DimFewPoints, NULL} : AddDimension(dim, TRUE, TRUE)

LConstraintAdd ==
    \E type \in {"GR_CONSTRAINT_LIQUIDITY", "GR_CONSTRAINT_MARGIN"},
       name \in {NULLS, "limit"} :
        ConstraintAdd(type, name, One)

LConstraintAddFull ==
    ConstraintAddFull("GR_CONSTRAINT_REGULATORY", NULLS, 0, "GR_CONSTRAINT_EQUALITY",
                      One, "GR_CONSTRAINT_HARD", One)

LMetricSet ==
    \E num_dims \in {1, 2} :
    \E coordinates \in CoordInputs(num_dims), tensor \in TensorInputs(num_dims) :
        MetricSet(coordinates, num_dims, tensor, TRUE, TRUE, TRUE)

NextLimit == LAddDim \/ LConstraintAdd \/ LConstraintAddFull \/ LMetricSet

SpecLimit == InitLimit /\ [][NextLimit]_vars

(***************************************************************************)
(* SpecCons: one constraint surface of either version of the header, built *)
(* with gr_constraint_add and gr_constraint_add_full and queried at the    *)
(* points (v) with v counted in units of 1e-9.                             *)
(***************************************************************************)
MaxConstraints == 2

\* the query points, and no point at all
ConsPoints == {NULL} \cup {Arr([d \in 0 .. 0 |-> R(v)]) : v \in 0 .. MaxCoord}

InitCons ==
    /\ ctx = gr_context_new
    /\ space = gr_state_space_new
    /\ jac = NULL
    /\ hess = NULL
    /\ map = NULL
    /\ metric = NULL
    /\ surface = NULL
    /\ op = "new"
    /\ ret = GR_SUCCESS
    /\ ub = FALSE
    /\ dl = DlInit
    /\ obs = ObsNone

CNew == \E hdr \in {"tol", "fix"}, allocOk \in BOOLEAN : ConstraintSurfaceNew(hdr, allocOk)

CAdd ==
    /\ surface # NULL
    /\ surface.num_constraints < MaxConstraints
    /\ ConstraintAdd("GR_CONSTRAINT_MARGIN", NULLS, One)

CAddFull ==
    \E direction \in {"GR_CONSTRAINT_UPPER", "GR_CONSTRAINT_LOWER",
                      "GR_CONSTRAINT_EQUALITY"},
       threshold \in {Rat(1, 20), One} :
        /\ surface # NULL
        /\ surface.num_constraints < MaxConstraints
        /\ ConstraintAddFull("GR_CONSTRAINT_POSITION_LIMIT", "limit", 0, direction,
                             threshold, "GR_CONSTRAINT_HARD", Two)

CSetActive ==
    \E index \in -1 .. MaxConstraints, active \in {0, 1} :
        ConstraintSetActive(index, active)

CCheck == \E coordinates \in ConsPoints : ConstraintCheck(coordinates, 1)

CDistance == \E coordinates \in ConsPoints : ConstraintDistance(coordinates, 1)

NextCons == CNew \/ CAdd \/ CAddFull \/ CSetActive \/ CCheck \/ CDistance

SpecCons == InitCons /\ [][NextCons]_vars

(***************************************************************************)
(* Surfaces whose constraints all come from gr_constraint_add, queried at  *)
(* one-dimensional points.                                                  *)
(***************************************************************************)
ThresholdTypes ==
    {"GR_CONSTRAINT_LIQUIDITY", "GR_CONSTRAINT_POSITION_LIMIT",
     "GR_CONSTRAINT_MARGIN", "GR_CONSTRAINT_REGULATORY", "GR_CONSTRAINT_CUSTOM"}

\* thresholds between and beside the coordinates of the query points
ThresholdValues == {Rat(1, 2), R(MaxCoord + 1)}

InitThreshold == InitCons

TNew == \E hdr \in {"tol", "fix"} : ConstraintSurfaceNew(hdr, TRUE)

TAdd ==
    \E type \in ThresholdTypes, threshold \in ThresholdValues :
        /\ surface # NULL
        /\ surface.num_constraints < MaxConstraints
        /\ ConstraintAdd(type, NULLS, threshold)

TSetActive ==
    \E index \in 0 .. MaxConstraints - 1, active \in {0, 1} :
        ConstraintSetActive(index, active)

TCheck == \E coordinates \in ConsPoints : ConstraintCheck(coordinates, 1)

NextThreshold == TNew \/ TAdd \/ TSetActive \/ TCheck

SpecThreshold == InitThreshold /\ [][NextThreshold]_vars

(***************************************************************************)
(* SpecBridge: a context whose engine libraries are set, set again and     *)
(* priced with, until the context is freed.                                *)
(***************************************************************************)
InitBridge ==
    /\ ctx = gr_context_new
    /\ space = gr_state_space_new
    /\ jac = NULL
    /\ hess = NULL
    /\ map = NULL
    /\ metric = NULL
    /\ surface = NULL
    /\ dl = DlInit
    /\ op = "new"
    /\ ret = GR_SUCCESS
    /\ ub = FALSE
    /\ obs = ObsNone

BSetMco ==
    /\ ctx # NULL
    /\ dl.loads < MaxLoads
    /\ \E path \in {NULLS, "absent", "mco_bare", "mco_calls", "mco_full"},
          ctxOk \in BOOLEAN :
          SetMcoLibrary(path, ctxOk)

BSetFdp ==
    /\ ctx # NULL
    /\ dl.loads < MaxLoads
    /\ \E path \in {NULLS, "absent", "fdp_bare", "fdp_calls", "fdp_full"},
          ctxOk \in BOOLEAN :
          SetFdpLibrary(path, ctxOk)

BSetThreads ==
    /\ ctx # NULL
    /\ \E threads \in {0, 2} : SetNumThreads(threads)

BPrice ==
    /\ ctx # NULL
    /\ \E engine \in {"GR_ENGINE_AUTO", "GR_ENGINE_MCO", "GR_ENGINE_FDP"},
          style \in {"GR_STYLE_EUROPEAN", "GR_STYLE_AMERICAN", "GR_STYLE_ASIAN"},
          type \in {"GR_TYPE_CALL", "GR_TYPE_PUT"} :
          PriceVanilla(engine, style, type, One)

BMcoCall == ctx # NULL /\ McoEuropeanCall(One)

BFdpCall == ctx # NULL /\ FdpEuropeanCall(One)

BFree == ctx # NULL /\ ContextFree

NextBridge ==
    \/ BSetMco \/ BSetFdp \/ BSetThreads
    \/ BPrice \/ BMcoCall \/ BFdpCall \/ BFree

SpecBridge == InitBridge /\ [][NextBridge]_vars

(***************************************************************************)
(* SpecJacobi: gr_eigenvalues_jacobi called on symmetric matrices whose    *)
(* entries are multiples of 1e-13.                                         *)
(***************************************************************************)
InitJacobi ==
    /\ ctx = gr_context_new
    /\ space = gr_state_space_new
    /\ jac = NULL
    /\ hess = NULL
    /\ map = NULL
    /\ metric = NULL
    /\ surface = NULL
    /\ dl = DlInit
    /\ op = "new"
    /\ ret = GR_SUCCESS
    /\ ub = FALSE
    /\ obs = ObsNone

\* the symmetric n x n matrices with entries among -8, 0, 8 and 20 units
SmallMatrices(n) ==
    {M \in [0 .. n * n - 1 -> {R(-8), Zero, R(8), R(20)}] :
        \A i \in 0 .. n - 1 : \A j \in 0 .. n - 1 : M[i * n + j] = M[j * n + i]}

JApply ==
    \E n \in 1 .. MaxDims, jacobi \in {"abs", "signed"} :
    \E M \in SmallMatrices(n) :
        EigenvaluesJacobi(M, n, jacobi)

NextJacobi == JApply

SpecJacobi == InitJacobi /\ [][NextJacobi]_vars

(***************************************************************************)
(* SpecNearest: gr_state_space_nearest_index called on points inside,      *)
(* on and outside the grids of a state space.                              *)
(***************************************************************************)
InitNearest ==
    /\ ctx = gr_context_new
    /\ space \in {SpaceOf(<<DimA>>, 1), SpaceOf(<<DimQ>>, 1),
                  SpaceOf(<<DimA, DimQ>>, 2), SpaceOf(<<DimQ, DimB>>, 2)}
    /\ jac = NULL
    /\ hess = NULL
    /\ map = NULL
    /\ metric = NULL
    /\ surface = NULL
    /\ dl = DlInit
    /\ op = "new"
    /\ ret = GR_SUCCESS
    /\ ub = FALSE
    /\ obs = ObsNone

\* values below, on, between and above the grid values of DimA, DimB, DimQ
NearestValues ==
    {R(-1), Zero, Rat(1, 4), Rat(1, 2), Rat(3, 4), One, Rat(5, 2), R(4)}

NNearest ==
    \E coordinates \in [0 .. space.num_dims - 1 -> NearestValues],
       copy \in {"bracket", "scan"} :
        NearestIndex(Arr(coordinates), copy)

NextNearest == NNearest

SpecNearest == InitNearest /\ [][NextNearest]_vars

(***************************************************************************)
(* Properties of the Hessian.                                              *)
(***************************************************************************)
\* the valid flag of a Jacobian or Hessian and the grid_computed flag of a
\* fragility map, 0 when there is no object
ValidOf(o) == IF o = NULL THEN 0 ELSE o.valid

ComputedOf(m) == IF m = NULL THEN 0 ELSE m.grid_computed

\* C19: an interpolation of a price on a state space whose prices are not
\* valid reports NotInitialized.
C19_InterpolationNeedsValidPrices ==
    (op = "interpolate_price" /\ space.prices_valid = 0) =>
        /\ ret = GR_ERROR_NOT_INITIALIZED
        /\ ctx.last_error = GR_ERROR_NOT_INITIALIZED

\* C5: a jacobian, hessian or fragility-map compute entered with prices
\* that are not valid (and arguments that pass the null and dimension
\* checks) returns NOT_INITIALIZED and leaves the valid flag of its object
\* as it was.
C5_ComputeNeedsValidPrices ==
    [][(/\ space.prices_valid = 0
        /\ op' \in {"jacobian_compute", "hessian_compute", "fragility_map_compute"}
        /\ ret' \notin {GR_ERROR_NULL_POINTER, GR_ERROR_DIMENSION_MISMATCH})
       => /\ ret' = GR_ERROR_NOT_INITIALIZED
          /\ ValidOf(jac') = ValidOf(jac)
          /\ ValidOf(hess') = ValidOf(hess)
          /\ ComputedOf(map') = ComputedOf(map)]_vars

\* C8: a successful grid-backed Hessian compute used, in every dimension
\* whose grid step is not trivial, that grid step as its step h_d.
C8_StepIsGridStep ==
    (op = "hessian_compute" /\ ret = GR_SUCCESS) =>
        \A d \in 0 .. space.num_dims - 1 :
            ~RTiny(space.dims[d].step_size)
                => obs.steps.at[d] = space.dims[d].step_size

\* C9: the matrix of a Hessian that has been computed is symmetric.
C9_HessianSymmetric ==
    (hess # NULL /\ hess.valid = 1) =>
        \A i \in 0 .. hess.num_dims - 1 : \A j \in 0 .. hess.num_dims - 1 :
            hess.data[i * hess.num_dims + j] = hess.data[j * hess.num_dims + i]

\* a grid-backed compute stored a non-zero mixed derivative
C9_Witness ==
    /\ op = "hessian_compute"
    /\ ret = GR_SUCCESS
    /\ hess.impl = "B"
    /\ hess.num_dims = 2
    /\ hess.data[1] # Zero

\* the eigenvalues of the matrix the Hessian holds now
CurrentEigenvalues ==
    gr_eigenvalues_jacobi(hess.data, hess.num_dims, hess.jacobi).eigenvalues

\* C10: a successful compute leaves the eigenvalue cache not valid; a cache
\* that is valid holds the eigenvalues of the matrix stored now, and what an
\* eigenvalue or condition-number query returns comes from that matrix.
C10_CacheFollowsMatrix ==
    /\ (op \in {"hessian_compute", "hessian_compute_direct"}
            /\ ret = GR_SUCCESS) => hess.eigen_valid = 0
    /\ (hess # NULL /\ hess.eigen_valid = 1) =>
            /\ hess.eigenvalues = CurrentEigenvalues
            /\ (op = "hessian_eigenvalues" /\ ret = GR_SUCCESS) =>
                  \A i \in DOMAIN obs.out.at :
                      obs.out.at[i] = CurrentEigenvalues[i]
            /\ op = "hessian_condition_number" =>
                  obs.value = HessianCondition(
                                [hess EXCEPT !.eigenvalues = CurrentEigenvalues])

\* C11: the eigenvalues a successful gr_hessian_eigenvalues wrote to the
\* output array are in non-increasing order of absolute value.
C11_EigenvaluesByMagnitude ==
    (op = "hessian_eigenvalues" /\ ret = GR_SUCCESS) =>
        \A i \in DOMAIN obs.out.at : \A j \in DOMAIN obs.out.at :
            i < j => RGe(RAbs(obs.out.at[i]), RAbs(obs.out.at[j]))

\* a compute replaced a matrix whose eigenvalues were cached: the array
\* still holds the eigenvalues of the earlier matrix
C10_Witness ==
    /\ op \in {"hessian_compute", "hessian_compute_direct"}
    /\ ret = GR_SUCCESS
    /\ hess.eigen_valid = 0
    /\ hess.eigenvalues # CurrentEigenvalues
    /\ \E i \in DOMAIN hess.eigenvalues : hess.eigenvalues[i] # Zero

\* C20: the failure kind an operation has returned is the last error of
\* the context right after the call.
C20_LastErrorIsReturnedKind ==
    ret # GR_SUCCESS => ctx.last_error = ret

\* gr_context_get_last_error of a live context
gr_context_get_last_error(c) ==
    IF c = NULL THEN GR_ERROR_NULL_POINTER ELSE c.last_error

\* C21: right after gr_context_set_bump_size or gr_context_set_num_threads,
\* gr_context_get_last_error is Success when the value was valid and
\* InvalidArgument when it was not, whatever calls came before.
C21_LastErrorFollowsSetter ==
    op \in {"set_bump_size", "set_num_threads"} =>
        gr_context_get_last_error(ctx) = ret

\* C23: gr_eigenvalues_jacobi stops within 100 rotations; it returns
\* success, with the diagonal of the matrix as the eigenvalues, exactly
\* when the off-diagonal norm is below the tolerance, and
\* NumericalInstability only when 100 rotations have left the norm at or
\* above the tolerance.
C23_JacobiStopsAsSpecified ==
    op = "eigenvalues_jacobi" =>
        LET n == obs.flag
            M == obs.calls[2]
            below == OffDiagBelowTol(M, n, GR_JACOBI_TOL_E13)
        IN  /\ obs.steps <= GR_JACOBI_MAX_ITER
            /\ (ret = GR_SUCCESS) <=> below
            /\ ret = GR_SUCCESS =>
                  \E f \in [0 .. n - 1 -> 0 .. n - 1] :
                     /\ \A i, j \in 0 .. n - 1 : f[i] = f[j] => i = j
                     /\ \A i \in 0 .. n - 1 :
                           obs.out.at[i] = M[f[i] * n + f[i]]
            /\ ret # GR_SUCCESS =>
                  /\ ret = GR_ERROR_NUMERICAL_INSTABILITY
                  /\ obs.steps = GR_JACOBI_MAX_ITER
                  /\ ~below

\* C26: a gr_jacobian_compute or gr_hessian_compute that returns an error
\* leaves the evaluation point, the value and the derivative entries of
\* its object as they were before the call.
C26_FailedComputeKeepsObject ==
    [][(op' \in {"jacobian_compute", "hessian_compute"}
            /\ ret' # GR_SUCCESS) =>
          /\ jac # NULL =>
                /\ jac'.point = jac.point
                /\ jac'.value = jac.value
                /\ jac'.partials = jac.partials
          /\ hess # NULL =>
                /\ hess'.point = hess.point
                /\ hess'.data = hess.data]_vars

RECURSIVE SumOver(_, _)
\* the sum of f over the set S
SumOver(f, S) ==
    IF S = {} THEN Zero
    ELSE LET k == CHOOSE x \in S : TRUE
         IN  RAdd(f[k], SumOver(f, S \ {k}))

\* the score of every grid point under the configuration of the map, with
\* the Hessian of implementation impl
SweepScores(impl) ==
    [k \in 0 .. space.total_points - 1 |->
        PointFragility(ctx, space, map.config, impl,
                       gr_state_space_get_coordinates(space, k)).fragility_score]

\* C28: between gr_fragility_map_set_config and the next compute no accessor
\* reports a result of the previous configuration: gr_fragility_at_point
\* returns 0, gr_fragility_map_get_num_fragile_regions returns 0 and
\* gr_fragility_map_get_statistics gives 0 for max, mean and fragile fraction.
C28_SetConfigResetsResults ==
    (map # NULL /\ map.grid_computed = 0) =>
        /\ op = "fragility_at_point" => obs.value = Zero
        /\ op = "fragility_map_get_num_fragile_regions" => obs.flag = 0
        /\ op = "fragility_map_get_statistics" =>
              obs.out = Arr(0 :> Zero @@ 1 :> Zero @@ 2 :> Zero)

\* C27: after a successful gr_fragility_map_compute there is a set S of
\* grid points, those scored in the sweep, such that grid_scores holds the
\* score of the sweep at the points of S and no score elsewhere, and max,
\* mean and fragile_fraction are those of the scores of S.
C27_ScoresComeFromSweep ==
    (op = "fragility_map_compute" /\ ret = GR_SUCCESS /\ ~ub) =>
        \E impl \in {"A", "B"} :
        \E fresh \in {SweepScores(impl)} :
        \E S \in SUBSET (0 .. space.total_points - 1) :
            /\ \A k \in 0 .. space.total_points - 1 :
                  map.grid_scores.at[k] = IF k \in S THEN fresh[k] ELSE Zero
            /\ \A k \in S : RGe(map.max_fragility, fresh[k])
            /\ map.max_fragility \in {Zero} \cup {fresh[k] : k \in S}
            /\ map.mean_fragility =
                  RDiv(SumOver(fresh, S), R(space.total_points))
            /\ map.fragile_fraction =
                  Rat(Cardinality({k \in S :
                          RGe(fresh[k], map.config.fragility_threshold)}),
                      space.total_points)

\* v clamped to the range of the dimension
ClampToRange(dim, v) ==
    IF RLt(v, dim.min_value) THEN dim.min_value
    ELSE IF RGt(v, dim.max_value) THEN dim.max_value
    ELSE v

RetainedMagnitudes ==
    {m \in {RAbs(hess.eigenvalues[i]) : i \in 0 .. hess.num_dims - 1} :
        ~RTiny(m)}

\* C24: the condition number returned for a Hessian whose eigenvalues were
\* found is the largest magnitude over the smallest retained magnitude,
\* and the sentinel 1e15 or +infinity when no magnitude is retained.
C24_ConditionNumberOrSentinel ==
    (op = "hessian_condition_number" /\ hess.valid = 1
        /\ hess.eigen_valid = 1) =>
        IF RetainedMagnitudes = {}
        THEN obs.value \in {GR_1E15, GR_INFINITY}
        ELSE \E hi \in RetainedMagnitudes, lo \in RetainedMagnitudes :
                /\ \A m \in RetainedMagnitudes : RGe(hi, m) /\ RLe(lo, m)
                /\ obs.value = RDiv(hi, lo)

(***************************************************************************)
(* Properties of the pricing engines.                                      *)
(***************************************************************************)
\* some loaded engine has a function that prices the style and type
EntryPointLoaded(c, style, type) ==
    \/ c.fdp_loaded # 0 /\ FdpEntry(c.fdp, style, type) # 0
    \/ c.mco_loaded # 0 /\ McoEntry(c.mco, style, type) # 0

PricingOps == {"bridge_price_vanilla", "mco_european_call", "fdp_european_call"}

\* C22: after a pricing request for a style and type that no loaded engine
\* has a function for, the last error of the context is
\* PricingEngineFailed.
C22_NoEntryPointIsPricingEngineFailed ==
    (op \in PricingOps /\ ~EntryPointLoaded(ctx, obs.out.style, obs.out.type))
        => ctx.last_error = GR_ERROR_PRICING_ENGINE_FAILED

\* C30: whatever libraries were set and set again, a pricing context is
\* held only while its library handle is open and the loaded flag is set,
\* every release of a pricing context went through the library that
\* created it, no function of a closed library was called, and once the
\* context is freed every pricing context created has been released.
C30_EngineContextsFollowLibraries ==
    /\ ~ub
    /\ ctx # NULL =>
          /\ ctx.mco_ctx # 0 =>
                (ctx.mco_loaded # 0 /\ Callable(dl, ctx.mco.handle))
          /\ ctx.fdp_ctx # 0 =>
                (ctx.fdp_loaded # 0 /\ Callable(dl, ctx.fdp.handle))
    /\ \A f \in dl.freed : f.via = f.ctx
    /\ op = "context_free" => dl.created = {f.ctx : f \in dl.freed}

(***************************************************************************)
(* Properties of the error paths.                                          *)
(***************************************************************************)
CallerErrors ==
    {GR_ERROR_NULL_POINTER, GR_ERROR_INVALID_ARGUMENT,
     GR_ERROR_DIMENSION_MISMATCH, GR_ERROR_NOT_INITIALIZED}

C15_AllocationFailureReported ==
    (op = "fragility_map_compute" /\ obs.flag = 1) => ret # GR_SUCCESS

\* the flat indices whose score on the grid reaches the threshold
FragileNodes ==
    {flat \in 0 .. space.total_points - 1 :
        /\ flat < BufLen(map.grid_scores)
        /\ RGe(map.grid_scores.at[flat], map.config.fragility_threshold)}

\* C16: after a successful gr_fragility_map_compute the list of fragile
\* points has one record, with the coordinates and the score, for each
\* node whose score reaches the threshold and no other record, and the
\* number of records is fragile_fraction * total_points.
C16_OneRecordPerFragileNode ==
    (op = "fragility_map_compute" /\ ret = GR_SUCCESS) =>
        /\ Len(map.points) = Cardinality(FragileNodes)
        /\ \A flat \in FragileNodes : \E k \in 1 .. Len(map.points) :
              /\ map.points[k].coordinates =
                    gr_state_space_get_coordinates(space, flat)
              /\ map.points[k].fragility_score = map.grid_scores.at[flat]
        /\ R(Len(map.points)) =
              RMul(map.fragile_fraction, R(space.total_points))

\* C17: whenever gr_fragility_map_compute would pass its check of the prices
\* and the map has a score grid, the grid has exactly total_points entries,
\* and neither a compute nor gr_fragility_at_point has used an index outside
\* the grid.
C17_GridHoldsTotalPoints ==
    /\ (map # NULL /\ map.grid_scores # NULL /\ space.prices_valid = 1)
          => BufLen(map.grid_scores) = space.total_points
    /\ op \in {"fragility_map_compute", "fragility_at_point"} => ~ub

(***************************************************************************)
(* Properties of the capacities.                                           *)
(***************************************************************************)
\* the count of a container, 0 when there is no object
SamplesOf(m) == IF m = NULL THEN 0 ELSE m.num_samples

ConstraintsOf(s) == IF s = NULL THEN 0 ELSE s.num_constraints

ConstraintsInUse ==
    IF surface = NULL THEN {}
    ELSE {surface.constraints[i] : i \in 0 .. surface.num_constraints - 1}

\* C13: an active constraint of direction Upper, Lower or Equality is
\* violated at a point exactly when its signed distance there is negative;
\* for Upper and Lower the distance is zero on the threshold and positive
\* on the permitted side of it.
C13_ViolatedIffNegative ==
    \A c \in ConstraintsInUse : \A p \in ConsPoints \ {NULL} :
        c.active # 0 =>
            \E dist \in {gr_constraint_signed_distance(surface.hdr, c, p.at, 1)},
               val \in {gr_constraint_evaluate(c, p.at, 1)} :
                /\ gr_constraint_is_violated(surface.hdr, c, p.at, 1)
                       <=> XLt(dist, Zero)
                /\ c.direction # "GR_CONSTRAINT_EQUALITY" =>
                       /\ val = c.threshold => dist = Zero
                       /\ (\/ c.direction = "GR_CONSTRAINT_UPPER" /\ RLt(val, c.threshold)
                           \/ c.direction = "GR_CONSTRAINT_LOWER" /\ RGt(val, c.threshold))
                          => XLt(Zero, dist)

\* C14: a violation query that answers true has an active constraint that
\* is violated at the point, and a minimum-distance query on a surface
\* without an active constraint answers +infinity.
C14_InactiveContributesInfinity ==
    /\ \A c \in ConstraintsInUse : \A p \in ConsPoints \ {NULL} :
          c.active = 0 => ~gr_constraint_is_violated(surface.hdr, c, p.at, 1)
    /\ (op = "constraint_check" /\ \A c \in ConstraintsInUse : c.active = 0)
          => obs.flag = 0
    /\ (op = "constraint_distance" /\ \A c \in ConstraintsInUse : c.active = 0)
          => obs.value = GR_INFINITY

\* the active upper-limit constraints of the surface
ActiveUpperLimits ==
    {c \in ConstraintsInUse :
        c.active # 0 /\ c.direction = "GR_CONSTRAINT_UPPER"}

\* C29: on a surface filled by gr_constraint_add, gr_constraint_check at a
\* point compares a coordinate of the point with the threshold: it answers
\* 1 when the coordinate exceeds the threshold of an active upper-limit
\* constraint, and 0 when every active constraint is an upper limit whose
\* threshold lies above the coordinate.
C29_CheckComparesCoordinate ==
    (op = "constraint_check" /\ surface # NULL /\ obs.out # NULL) =>
        \E d \in DOMAIN obs.out.at :
            /\ (\E c \in ActiveUpperLimits : RGt(obs.out.at[d], c.threshold))
                  => obs.flag = 1
            /\ (/\ \A c \in ConstraintsInUse :
                      c.active # 0 => c \in ActiveUpperLimits
                /\ \A c \in ActiveUpperLimits :
                      RLt(obs.out.at[d], c.threshold))
                  => obs.flag = 0

(***************************************************************************)
(* Properties of the fragility map.                                        *)
(***************************************************************************)
InUnitInterval(x) == RGe(x, Zero) /\ RLe(x, One)

\* C7: after a compute under a configuration whose four weights are not
\* negative, every entry of grid_scores and the score of every stored
\* fragile point lies in [0, 1].
C7_ScoresInUnitInterval ==
    (/\ op = "fragility_map_compute"
     /\ ret = GR_SUCCESS
     /\ RGe(map.config.weight_gradient, Zero)
     /\ RGe(map.config.weight_curvature, Zero)
     /\ RGe(map.config.weight_conditioning, Zero)
     /\ RGe(map.config.weight_constraint, Zero)) =>
        /\ \A flat \in DOMAIN map.grid_scores.at :
              InUnitInterval(map.grid_scores.at[flat])
        /\ \A k \in 1 .. Len(map.points) :
              InUnitInterval(map.points[k].fragility_score)

====
